---- MODULE Spec2Model ----
(***************************************************************************)
(* A model of the nes-emu core: the 6502 interpreter (src/cpu/cpu.py), the *)
(* bus (src/memory/memory.py), the NROM cartridge                          *)
(* (src/memory/cartridges.py) and the bit-flag registers (src/utils.py,    *)
(* src/ppu/ppu.py).                                                        *)
(*                                                                         *)
(* Python integers are unbounded, and the source masks only where it       *)
(* writes a mask: the model keeps unbounded integers and applies exactly   *)
(* the masks of the source.  An exception leaves the object as the code    *)
(* had mutated it up to the raise; the field err of a machine record names *)
(* the exception and every later operation of the same call is skipped.    *)
(***************************************************************************)
EXTENDS Integers, Sequences, FiniteSets, TLC

(***************************************************************************)
(* Python's int operators on two's-complement integers of any sign.        *)
(***************************************************************************)
RECURSIVE BitAnd(_, _)
BitAnd(p, q) ==
    IF p = 0 \/ q = 0 THEN 0
    ELSE IF p = -1 THEN q
    ELSE IF q = -1 THEN p
    ELSE (p % 2) * (q % 2) + 2 * BitAnd(p \div 2, q \div 2)

BitOr(p, q) == p + q - BitAnd(p, q)

BitXor(p, q) == p + q - 2 * BitAnd(p, q)

BitNot(p) == 0 - p - 1

Shl(p, n) == p * 2^n

Shr(p, n) == p \div 2^n

\* bool used as an int (True is 1)
B2I(b) == IF b THEN 1 ELSE 0

(***************************************************************************)
(* Constants of the source.                                                *)
(***************************************************************************)
_MASK == 32

_MASK8 == 255

_MASK16 == 65535

_MASK_NEG == 128

_STACK_POINTER_INIT_VAL == 253

_STACK_PAGE_ADDR == 256

_RESET_VECTOR_ADDR == 65532

_BRQ_VECTOR_ADDR == 65534

_RAM_SIZE == 2048

_RAM_END == 8192

_PPU_END == 16384

_PPU_SIZE == 8

_APU_AND_IO_END == 16408

_APU_UNUSED_END == 16416

_PPU_CONTROLLER_ADDR == 8192

_PPU_MASK_ADDR == 8193

_PPU_OAM_ADDR == 8195

CART_BASE == 32768

\* the outcome of a call: OK, or the name of the exception it raised
OK == "ok"

KeyError == "KeyError"

ValueError == "ValueError"

IndexError == "IndexError"

NotImplementedError == "NotImplementedError"

(***************************************************************************)
(* FlagsRegister and PSRegister: the cell is an int, the accessors are     *)
(* single-bit reads and writes.                                            *)
(***************************************************************************)
_get_bit(value, bit_index) == BitAnd(value, Shl(1, bit_index)) # 0

_set_bit(value, bit_index, b) ==
    IF b THEN BitOr(value, Shl(1, bit_index))
    ELSE BitAnd(value, BitNot(Shl(1, bit_index)))

\* PSRegister.__init__
PSRegister == _MASK

\* PSRegister.value setter without the mask: what FlagsRegister.value does
ps_value_unmasked(new_val) == new_val

\* PSRegister.value setter
ps_value(new_val) == BitOr(new_val, _MASK)

ps_c(ps) == _get_bit(ps, 0)
ps_z(ps) == _get_bit(ps, 1)
ps_i(ps) == _get_bit(ps, 2)
ps_d(ps) == _get_bit(ps, 3)
ps_b(ps) == _get_bit(ps, 4)
ps_v(ps) == _get_bit(ps, 6)
ps_n(ps) == _get_bit(ps, 7)

(***************************************************************************)
(* Memory.  ram is the bus's bytearray restricted to the 2 KiB the code    *)
(* indexes, kept sparse: an offset outside DOMAIN ram holds 0.  A          *)
(* cartridge is its image length and the image, sparse in the same way.    *)
(***************************************************************************)
Byte == 0 .. 255

Peek(f, o) == IF o \in DOMAIN f THEN f[o] ELSE 0

Poke(f, o, v) ==
    IF v = 0 THEN [k \in DOMAIN f \ {o} |-> f[k]]
    ELSE [k \in DOMAIN f \cup {o} |-> IF k = o THEN v ELSE f[k]]

\* NROMCartridge.read
\* NROMCartridge.read indexing the image from the top for an address
\* below the window
NROMCartridge_read_unguarded(cart, addr) ==
    IF addr - CART_BASE >= cart.len THEN [err |-> IndexError, val |-> 0]
    ELSE [err |-> OK, val |-> Peek(cart.rom, (addr - CART_BASE) % cart.len)]

NROMCartridge_read(cart, addr) ==
    IF addr < CART_BASE THEN [err |-> ValueError, val |-> 0]
    ELSE IF addr - CART_BASE >= cart.len THEN [err |-> IndexError, val |-> 0]
    ELSE [err |-> OK, val |-> Peek(cart.rom, addr - CART_BASE)]

\* NROMCartridge.write
NROMCartridge_write(cart, addr, value) == NotImplementedError

\* CpuMemoryMapper.read: [err, val]
\* CpuMemoryMapper.read indexing RAM with the address itself
read_unmirrored(m, addr) ==
    IF addr < _RAM_END THEN [err |-> OK, val |-> Peek(m.ram, addr)]
    ELSE IF addr < _PPU_END THEN [err |-> NotImplementedError, val |-> 0]
    ELSE IF addr < _APU_AND_IO_END THEN [err |-> NotImplementedError, val |-> 0]
    ELSE IF addr < _APU_UNUSED_END THEN [err |-> OK, val |-> 0]
    ELSE NROMCartridge_read(m.cart, addr)

read(m, addr) ==
    IF addr < _RAM_END THEN [err |-> OK, val |-> Peek(m.ram, addr % _RAM_SIZE)]
    ELSE IF addr < _PPU_END THEN [err |-> NotImplementedError, val |-> 0]
    ELSE IF addr < _APU_AND_IO_END THEN [err |-> NotImplementedError, val |-> 0]
    ELSE IF addr < _APU_UNUSED_END THEN [err |-> OK, val |-> 0]
    ELSE NROMCartridge_read(m.cart, addr)

\* PPU.set_ctrl_reg / PPU.set_mask_reg (FlagsRegister.value setter)
set_ctrl_reg(m, value) == [m EXCEPT !.ppu_ctrl = value]

set_mask_reg(m, value) == [m EXCEPT !.ppu_mask = value]

\* CpuMemoryMapper.write: the machine after the call
\* CpuMemoryMapper.write returning normally for a cartridge address
write_discards(m, addr, value) ==
    IF m.err # OK THEN m
    ELSE IF addr < _RAM_END THEN
        IF value \in Byte THEN [m EXCEPT !.ram = Poke(@, addr % _RAM_SIZE, value)]
        ELSE [m EXCEPT !.err = ValueError]
    ELSE IF addr < _PPU_END THEN
        LET slot == addr % _PPU_SIZE
            m1 == IF slot = _PPU_CONTROLLER_ADDR THEN set_ctrl_reg(m, value)
                  ELSE IF slot = _PPU_MASK_ADDR THEN set_mask_reg(m, value)
                  ELSE m
        IN [m1 EXCEPT !.err = NotImplementedError]
    ELSE m

write(m, addr, value) ==
    IF m.err # OK THEN m
    ELSE IF addr < _RAM_END THEN
        IF value \in Byte THEN [m EXCEPT !.ram = Poke(@, addr % _RAM_SIZE, value)]
        ELSE [m EXCEPT !.err = ValueError]
    ELSE IF addr < _PPU_END THEN
        LET slot == addr % _PPU_SIZE
            m1 == IF slot = _PPU_CONTROLLER_ADDR THEN set_ctrl_reg(m, value)
                  ELSE IF slot = _PPU_MASK_ADDR THEN set_mask_reg(m, value)
                  ELSE m
        IN [m1 EXCEPT !.err = NotImplementedError]
    ELSE IF addr < _APU_AND_IO_END THEN m
    ELSE IF addr < _APU_UNUSED_END THEN m
    ELSE [m EXCEPT !.err = NotImplementedError]

(***************************************************************************)
(* The CPU.  A machine record m holds the Cpu's fields (pc, a, x, y, sp,   *)
(* ps, cycles_count), the bus it owns (ram, cart, ppu_ctrl, ppu_mask) and  *)
(* err.  An instruction's argument is the keyword the dispatcher passes:   *)
(* value=, addr= or nothing.                                               *)
(***************************************************************************)
NoArg == [kind |-> "none", v |-> 0]

ValueArg(value) == [kind |-> "value", v |-> value]

AddrArg(addr) == [kind |-> "addr", v |-> addr]

Raise(m, e) == [m EXCEPT !.err = e]

\* the flag setters of PSRegister, on the machine's ps
set_c(m, b) == [m EXCEPT !.ps = _set_bit(@, 0, b)]

set_z(m, b) == [m EXCEPT !.ps = _set_bit(@, 1, b)]

set_i(m, b) == [m EXCEPT !.ps = _set_bit(@, 2, b)]

set_d(m, b) == [m EXCEPT !.ps = _set_bit(@, 3, b)]

set_b(m, b) == [m EXCEPT !.ps = _set_bit(@, 4, b)]

set_v(m, b) == [m EXCEPT !.ps = _set_bit(@, 6, b)]

set_n(m, b) == [m EXCEPT !.ps = _set_bit(@, 7, b)]

\* self._ps.z = reg == 0 ; self._ps.n = reg & self._MASK_NEG
set_zn(m, reg) == set_n(set_z(m, reg = 0), BitAnd(reg, _MASK_NEG) # 0)

\* Cpu._pull_from_stack: [m, val]
\* Cpu._pull_from_stack reading at the stack pointer before moving it
_pull_from_stack_reads_first(m) ==
    IF m.err # OK THEN [m |-> m, val |-> 0]
    ELSE LET r == read(m, BitOr(_STACK_PAGE_ADDR, m.sp))
         IN [m |-> [m EXCEPT !.sp = @ + 1, !.err = r.err], val |-> r.val]

_pull_from_stack(m) ==
    IF m.err # OK THEN [m |-> m, val |-> 0]
    ELSE LET m1 == [m EXCEPT !.sp = @ + 1]
             r == read(m1, BitOr(_STACK_PAGE_ADDR, m1.sp))
         IN [m |-> [m1 EXCEPT !.err = r.err], val |-> r.val]

\* Cpu._pull_word_from_stack: [m, val]
_pull_word_from_stack(m) ==
    LET lo == _pull_from_stack(m)
        hi == _pull_from_stack(lo.m)
    IN [m |-> hi.m, val |-> BitOr(lo.val, Shl(hi.val, 8))]

\* Cpu._push_to_stack
_push_to_stack(m, value) ==
    IF m.err # OK THEN m
    ELSE LET w == write(m, BitOr(_STACK_PAGE_ADDR, m.sp), value)
         IN IF w.err # OK THEN w ELSE [w EXCEPT !.sp = @ - 1]

\* Cpu._push_word_to_stack
_push_word_to_stack(m, value) ==
    _push_to_stack(_push_to_stack(m, Shr(value, 8)), BitAnd(value, _MASK8))

\* Cpu._read_word reading the high byte at addr + 1 whatever addr is
_read_word_nowrap(m, addr, wrap_page) ==
    LET hi == read(m, addr + 1)
        lo == read(m, addr)
    IN IF hi.err # OK THEN [err |-> hi.err, val |-> 0]
       ELSE IF lo.err # OK THEN [err |-> lo.err, val |-> 0]
       ELSE [err |-> OK, val |-> BitOr(Shl(hi.val, 8), lo.val)]

\* Cpu._read_word: [err, val]; the high byte is read first
_read_word(m, addr, wrap_page) ==
    LET hi == IF wrap_page /\ BitAnd(addr, 255) = 255
              THEN read(m, BitAnd(addr, 65280))
              ELSE read(m, addr + 1)
        lo == read(m, addr)
    IN IF hi.err # OK THEN [err |-> hi.err, val |-> 0]
       ELSE IF lo.err # OK THEN [err |-> lo.err, val |-> 0]
       ELSE [err |-> OK, val |-> BitOr(Shl(hi.val, 8), lo.val)]

\* Cpu._to_sign
_to_sign(num) ==
    IF BitAnd(num, _MASK_NEG) # 0 THEN 0 - BitAnd(BitNot(num), _MASK8) - 1 ELSE num

\* value if value is not None else self._memory.read(addr): [err, val]
operand(m, arg) ==
    IF arg.kind = "value" THEN [err |-> OK, val |-> arg.v] ELSE read(m, arg.v)

\* self._a if addr is None else self._memory.read(addr): [err, val]
target(m, arg) ==
    IF arg.kind = "none" THEN [err |-> OK, val |-> m.a] ELSE read(m, arg.v)

\* if addr: self._memory.write(addr, val) else: self._a = val
store_target(m, arg, val) ==
    IF arg.kind = "addr" /\ arg.v # 0 THEN write(m, arg.v, val)
    ELSE [m EXCEPT !.a = val]

(***************************************************************************)
(* Instructions.                                                           *)
(***************************************************************************)
\* Cpu._adc taking the overflow from the operand's sign alone
add_with_carry_v_operand(m, value) ==
    LET res == m.a + value + B2I(ps_c(m.ps))
        m1 == set_c(m, res > 255)
        m2 == set_v(m1, BitAnd(value, _MASK_NEG) # BitAnd(res, _MASK_NEG))
        m3 == set_n(m2, BitAnd(res, _MASK_NEG) # 0)
        m4 == [m3 EXCEPT !.a = BitAnd(res, _MASK8)]
    IN set_z(m4, m4.a = 0)

\* the sum, carry, overflow and sign of Cpu._adc (and Cpu._rra)
add_with_carry(m, value) ==
    LET res == m.a + value + B2I(ps_c(m.ps))
        m1 == set_c(m, res > 255)
        m2 == set_v(m1, BitAnd(m.a, _MASK_NEG) = BitAnd(value, _MASK_NEG)
                        /\ BitAnd(m.a, _MASK_NEG) # BitAnd(res, _MASK_NEG))
        m3 == set_n(m2, BitAnd(res, _MASK_NEG) # 0)
        m4 == [m3 EXCEPT !.a = BitAnd(res, _MASK8)]
    IN set_z(m4, m4.a = 0)

_adc(m, arg) ==
    LET r == operand(m, arg)
    IN IF r.err # OK THEN Raise(m, r.err) ELSE add_with_carry(m, r.val)

_and(m, arg) ==
    LET r == operand(m, arg)
    IN IF r.err # OK THEN Raise(m, r.err)
       ELSE LET m1 == [m EXCEPT !.a = BitAnd(@, r.val)] IN set_zn(m1, m1.a)

_asl(m, arg) ==
    LET r == target(m, arg)
    IN IF r.err # OK THEN Raise(m, r.err)
       ELSE LET shifted == Shl(r.val, 1)
                m1 == set_c(m, shifted > 255)
                val == BitAnd(shifted, _MASK8)
            IN store_target(set_zn(m1, val), arg, val)

\* a taken branch comparing the destination's page with the page of the
\* branch opcode instead of the page of the address after the operand
branch_from_opcode(m, value) ==
    LET offset == _to_sign(value)
        m1 == [m EXCEPT !.cycles_count =
                   @ + (IF BitAnd(m.pc - 2, 65280) = BitAnd(m.pc + offset, 65280)
                        THEN 1 ELSE 2)]
    IN [m1 EXCEPT !.pc = @ + offset]

\* the taken path of a branch: the penalty, then the jump
branch(m, value) ==
    LET offset == _to_sign(value)
        m1 == [m EXCEPT !.cycles_count =
                   @ + (IF BitAnd(m.pc, 65280) = BitAnd(m.pc + offset, 65280)
                        THEN 1 ELSE 2)]
    IN [m1 EXCEPT !.pc = @ + offset]

_bcc(m, arg) == IF ps_c(m.ps) THEN m ELSE branch(m, arg.v)

_bcs(m, arg) == IF ~ps_c(m.ps) THEN m ELSE branch(m, arg.v)

_beq(m, arg) == IF ~ps_z(m.ps) THEN m ELSE branch(m, arg.v)

_bit(m, arg) ==
    LET r == read(m, arg.v)
    IN IF r.err # OK THEN Raise(m, r.err)
       ELSE LET m1 == set_z(m, BitAnd(m.a, r.val) = 0)
                m2 == set_v(m1, BitAnd(r.val, Shl(1, 6)) # 0)
            IN set_n(m2, BitAnd(r.val, _MASK_NEG) # 0)

_bmi(m, arg) == IF ~ps_n(m.ps) THEN m ELSE branch(m, arg.v)

_bne(m, arg) == IF ps_z(m.ps) THEN m ELSE branch(m, arg.v)

_bpl(m, arg) == IF ps_n(m.ps) THEN m ELSE branch(m, arg.v)

_brk(m, arg) ==
    LET m1 == set_b(m, TRUE)
        m2 == _push_word_to_stack(m1, m1.pc)
        m3 == _push_to_stack(m2, m2.ps)
    IN IF m3.err # OK THEN m3 ELSE [m3 EXCEPT !.pc = _BRQ_VECTOR_ADDR]

_bvc(m, arg) == IF ps_v(m.ps) THEN m ELSE branch(m, arg.v)

_bvs(m, arg) == IF ~ps_v(m.ps) THEN m ELSE branch(m, arg.v)

_clc(m, arg) == set_c(m, FALSE)

_cli(m, arg) == set_i(m, FALSE)

_clv(m, arg) == set_v(m, FALSE)

\* the flags of Cpu._cmp, Cpu._cpx, Cpu._cpy (and Cpu._dcp) for register reg
\* Cpu._cmp setting the carry only when the register is greater
compare_strict(m, reg, value) ==
    LET m1 == set_c(m, reg > value)
        m2 == set_z(m1, reg = value)
    IN set_n(m2, BitAnd(reg - value, _MASK_NEG) # 0)

compare(m, reg, value) ==
    LET m1 == set_c(m, reg >= value)
        m2 == set_z(m1, reg = value)
    IN set_n(m2, BitAnd(reg - value, _MASK_NEG) # 0)

_cmp(m, arg) ==
    LET r == operand(m, arg)
    IN IF r.err # OK THEN Raise(m, r.err) ELSE compare(m, m.a, r.val)

_cpx(m, arg) ==
    LET r == operand(m, arg)
    IN IF r.err # OK THEN Raise(m, r.err) ELSE compare(m, m.x, r.val)

_cpy(m, arg) ==
    LET r == operand(m, arg)
    IN IF r.err # OK THEN Raise(m, r.err) ELSE compare(m, m.y, r.val)

_dec(m, arg) ==
    LET r == read(m, arg.v)
    IN IF r.err # OK THEN Raise(m, r.err)
       ELSE LET value == BitAnd(r.val - 1, _MASK8)
            IN write(set_zn(m, value), arg.v, value)

_dex(m, arg) ==
    LET m1 == [m EXCEPT !.x = BitAnd(@ - 1, _MASK8)] IN set_zn(m1, m1.x)

_dey(m, arg) ==
    LET m1 == [m EXCEPT !.y = BitAnd(@ - 1, _MASK8)] IN set_zn(m1, m1.y)

_eor(m, arg) ==
    LET r == operand(m, arg)
    IN IF r.err # OK THEN Raise(m, r.err)
       ELSE LET m1 == [m EXCEPT !.a = BitXor(@, BitAnd(r.val, _MASK8))]
            IN set_zn(m1, m1.a)

_inc(m, arg) ==
    LET r == read(m, arg.v)
    IN IF r.err # OK THEN Raise(m, r.err)
       ELSE LET value == BitAnd(r.val + 1, _MASK8)
            IN write(set_zn(m, value), arg.v, value)

_inx(m, arg) ==
    LET m1 == [m EXCEPT !.x = BitAnd(@ + 1, _MASK8)] IN set_zn(m1, m1.x)

_iny(m, arg) ==
    LET m1 == [m EXCEPT !.y = BitAnd(@ + 1, _MASK8)] IN set_zn(m1, m1.y)

_jmp(m, arg) == [m EXCEPT !.pc = arg.v]

\* Cpu._jsr pushing the address after the operand instead of the one before it
_jsr_pushes_next(m, arg) ==
    LET m1 == _push_word_to_stack(m, m.pc)
    IN IF m1.err # OK THEN m1 ELSE [m1 EXCEPT !.pc = arg.v]

_jsr(m, arg) ==
    LET m1 == _push_word_to_stack(m, m.pc - 1)
    IN IF m1.err # OK THEN m1 ELSE [m1 EXCEPT !.pc = arg.v]

_lda(m, arg) ==
    LET r == operand(m, arg)
    IN IF r.err # OK THEN Raise(m, r.err)
       ELSE set_zn([m EXCEPT !.a = r.val], r.val)

_ldx(m, arg) ==
    LET r == operand(m, arg)
    IN IF r.err # OK THEN Raise(m, r.err)
       ELSE set_zn([m EXCEPT !.x = r.val], r.val)

_ldy(m, arg) ==
    LET r == operand(m, arg)
    IN IF r.err # OK THEN Raise(m, r.err)
       ELSE set_zn([m EXCEPT !.y = r.val], r.val)

\* LSR
_asr(m, arg) ==
    LET r == target(m, arg)
    IN IF r.err # OK THEN Raise(m, r.err)
       ELSE LET m1 == set_c(m, BitAnd(r.val, 1) # 0)
                val == BitAnd(Shr(r.val, 1), _MASK8)
                m2 == set_n(set_z(m1, val = 0), FALSE)
            IN store_target(m2, arg, val)

_nop(m, arg) == m

_ora(m, arg) ==
    LET r == operand(m, arg)
    IN IF r.err # OK THEN Raise(m, r.err)
       ELSE LET m1 == [m EXCEPT !.a = BitOr(@, r.val)] IN set_zn(m1, m1.a)

_pha(m, arg) == _push_to_stack(m, m.a)

_php(m, arg) == _push_to_stack(m, m.ps)

\* Cpu._pla leaving Z and N as they were
_pla_keeps_flags(m, arg) ==
    LET p == _pull_from_stack(m)
    IN IF p.m.err # OK THEN p.m ELSE [p.m EXCEPT !.a = p.val]

_pla(m, arg) ==
    LET p == _pull_from_stack(m)
    IN IF p.m.err # OK THEN p.m
       ELSE set_zn([p.m EXCEPT !.a = p.val], p.val)

\* Cpu._plp taking B from the pulled byte as well
_plp_takes_b(m, arg) ==
    LET p == _pull_from_stack(m)
    IN IF p.m.err # OK THEN p.m ELSE [p.m EXCEPT !.ps = ps_value(p.val)]

_plp(m, arg) ==
    LET p == _pull_from_stack(m)
    IN IF p.m.err # OK THEN p.m
       ELSE [p.m EXCEPT !.ps =
                ps_value(BitOr(BitAnd(p.val, BitNot(Shl(1, 4))),
                               Shl(B2I(ps_b(m.ps)), 4)))]

_rol(m, arg) ==
    LET r == target(m, arg)
    IN IF r.err # OK THEN Raise(m, r.err)
       ELSE LET temp == B2I(ps_c(m.ps))
                m1 == set_c(m, BitAnd(r.val, _MASK_NEG) # 0)
                val == BitAnd(BitOr(Shl(r.val, 1), temp), _MASK8)
            IN store_target(set_zn(m1, val), arg, val)

_ror(m, arg) ==
    LET r == target(m, arg)
    IN IF r.err # OK THEN Raise(m, r.err)
       ELSE LET temp == B2I(ps_c(m.ps))
                m1 == set_c(m, BitAnd(r.val, 1) # 0)
                val == BitOr(Shr(r.val, 1), Shl(temp, 7))
                m2 == set_n(set_z(m1, val = 0), temp # 0)
            IN store_target(m2, arg, val)

_rti(m, arg) ==
    LET p == _pull_from_stack(m)
    IN IF p.m.err # OK THEN p.m
       ELSE LET m1 == [p.m EXCEPT !.ps = ps_value(p.val)]
                w == _pull_word_from_stack(m1)
            IN IF w.m.err # OK THEN w.m ELSE [w.m EXCEPT !.pc = w.val]

_rts(m, arg) ==
    LET w == _pull_word_from_stack(m)
    IN IF w.m.err # OK THEN w.m ELSE [w.m EXCEPT !.pc = w.val + 1]

\* Cpu._sbc setting the carry only on a strictly positive difference
sub_with_borrow_strict(m, value) ==
    LET res == m.a - value - (1 - B2I(ps_c(m.ps)))
        m1 == set_c(m, res > 0)
        m2 == set_v(m1, BitAnd(m.a, _MASK_NEG) # BitAnd(value, _MASK_NEG)
                        /\ BitAnd(res, _MASK_NEG) = BitAnd(value, _MASK_NEG))
        m3 == set_z(m2, res = 0)
        m4 == set_n(m3, BitAnd(res, _MASK_NEG) # 0)
    IN [m4 EXCEPT !.a = BitAnd(res, _MASK8)]

\* the difference, carry, overflow, zero and sign of Cpu._sbc,
\* Cpu._sbc_illegal (and Cpu._isb)
sub_with_borrow(m, value) ==
    LET res == m.a - value - (1 - B2I(ps_c(m.ps)))
        m1 == set_c(m, res >= 0)
        m2 == set_v(m1, BitAnd(m.a, _MASK_NEG) # BitAnd(value, _MASK_NEG)
                        /\ BitAnd(res, _MASK_NEG) = BitAnd(value, _MASK_NEG))
        m3 == set_z(m2, res = 0)
        m4 == set_n(m3, BitAnd(res, _MASK_NEG) # 0)
    IN [m4 EXCEPT !.a = BitAnd(res, _MASK8)]

_sbc(m, arg) ==
    LET r == operand(m, arg)
    IN IF r.err # OK THEN Raise(m, r.err) ELSE sub_with_borrow(m, r.val)

_sec(m, arg) == set_c(m, TRUE)

\* Cpu._sei setting Z and N from A as well, as the transfers do
_sei_sets_zn(m, arg) == set_zn(set_i(m, TRUE), m.a)

_sei(m, arg) == set_i(m, TRUE)

_sta(m, arg) == write(m, arg.v, m.a)

_stx(m, arg) == write(m, arg.v, m.x)

_sty(m, arg) == write(m, arg.v, m.y)

_tax(m, arg) == [set_zn(m, m.a) EXCEPT !.x = m.a]

_tay(m, arg) == [set_zn(m, m.a) EXCEPT !.y = m.a]

_tsx(m, arg) == [set_zn(m, m.sp) EXCEPT !.x = m.sp]

_txa(m, arg) == set_zn([m EXCEPT !.a = m.x], m.x)

_txs(m, arg) == [m EXCEPT !.sp = m.x]

_tya(m, arg) == set_zn([m EXCEPT !.a = m.y], m.y)

_sed(m, arg) == set_d(m, TRUE)

_cld(m, arg) == set_d(m, FALSE)

(***************************************************************************)
(* Illegal opcodes.                                                        *)
(***************************************************************************)
_lax(m, arg) ==
    LET r == read(m, arg.v)
    IN IF r.err # OK THEN Raise(m, r.err)
       ELSE set_zn([m EXCEPT !.a = r.val, !.x = r.val], r.val)

_sax(m, arg) == write(m, arg.v, BitAnd(m.a, m.x))

_sbc_illegal(m, arg) == sub_with_borrow(m, arg.v)

_dcp(m, arg) ==
    LET r == read(m, arg.v)
    IN IF r.err # OK THEN Raise(m, r.err)
       ELSE LET value == BitAnd(r.val - 1, _MASK8)
            IN write(compare(m, m.a, value), arg.v, value)

_isb(m, arg) ==
    LET r == read(m, arg.v)
    IN IF r.err # OK THEN Raise(m, r.err)
       ELSE LET value == BitAnd(r.val + 1, _MASK8)
                m1 == write(m, arg.v, value)
            IN IF m1.err # OK THEN m1 ELSE sub_with_borrow(m1, value)

_slo(m, arg) ==
    LET r == read(m, arg.v)
    IN IF r.err # OK THEN Raise(m, r.err)
       ELSE LET shifted == Shl(r.val, 1)
                m1 == set_c(m, shifted > 255)
                val == BitAnd(shifted, _MASK8)
                m2 == [m1 EXCEPT !.a = BitOr(@, val)]
            IN write(set_zn(m2, m2.a), arg.v, val)

_rla(m, arg) ==
    LET r == read(m, arg.v)
    IN IF r.err # OK THEN Raise(m, r.err)
       ELSE LET temp == B2I(ps_c(m.ps))
                m1 == set_c(m, BitAnd(r.val, _MASK_NEG) # 0)
                val == BitAnd(BitOr(Shl(r.val, 1), temp), _MASK8)
                m2 == [m1 EXCEPT !.a = BitAnd(@, val)]
            IN write(set_zn(m2, m2.a), arg.v, val)

_sre(m, arg) ==
    LET r == read(m, arg.v)
    IN IF r.err # OK THEN Raise(m, r.err)
       ELSE LET m1 == set_c(m, BitAnd(r.val, 1) # 0)
                val == Shr(r.val, 1)
                m2 == [m1 EXCEPT !.a = BitXor(@, BitAnd(val, _MASK8))]
            IN write(set_zn(m2, m2.a), arg.v, val)

_rra(m, arg) ==
    LET r == read(m, arg.v)
    IN IF r.err # OK THEN Raise(m, r.err)
       ELSE LET temp == B2I(ps_c(m.ps))
                m1 == set_c(m, BitAnd(r.val, 1) # 0)
                val == BitOr(Shr(r.val, 1), Shl(temp, 7))
            IN write(add_with_carry(m1, val), arg.v, val)

_nop_illegal(m, arg) == m

(***************************************************************************)
(* The opcode table Cpu._get_function_dict collects from the @instruction  *)
(* decorators: opcode -> (function, addressing mode, base cycles).         *)
(***************************************************************************)
Instr(function, addr_mode, cycles) ==
    [function |-> function, addr_mode |-> addr_mode, cycles |-> cycles]

_instructions ==
    105 :> Instr("_adc", "IMMEDIATE", 2) @@
    101 :> Instr("_adc", "ZERO_PAGE", 3) @@
    117 :> Instr("_adc", "ZERO_PAGE_X", 4) @@
    109 :> Instr("_adc", "ABSOLUTE", 4) @@
    125 :> Instr("_adc", "ABSOLUTE_X", 4) @@
    121 :> Instr("_adc", "ABSOLUTE_Y", 4) @@
    97 :> Instr("_adc", "INDIRECT_X", 6) @@
    113 :> Instr("_adc", "INDIRECT_Y", 5) @@
    41 :> Instr("_and", "IMMEDIATE", 2) @@
    37 :> Instr("_and", "ZERO_PAGE", 3) @@
    53 :> Instr("_and", "ZERO_PAGE_X", 4) @@
    45 :> Instr("_and", "ABSOLUTE", 4) @@
    61 :> Instr("_and", "ABSOLUTE_X", 4) @@
    57 :> Instr("_and", "ABSOLUTE_Y", 4) @@
    33 :> Instr("_and", "INDIRECT_X", 6) @@
    49 :> Instr("_and", "INDIRECT_Y", 5) @@
    10 :> Instr("_asl", "ACCUMULATOR", 2) @@
    6 :> Instr("_asl", "ZERO_PAGE", 5) @@
    22 :> Instr("_asl", "ZERO_PAGE_X", 6) @@
    14 :> Instr("_asl", "ABSOLUTE", 6) @@
    30 :> Instr("_asl", "ABSOLUTE_X", 7) @@
    144 :> Instr("_bcc", "RELATIVE", 2) @@
    176 :> Instr("_bcs", "RELATIVE", 2) @@
    240 :> Instr("_beq", "RELATIVE", 2) @@
    36 :> Instr("_bit", "ZERO_PAGE", 3) @@
    44 :> Instr("_bit", "ABSOLUTE", 4) @@
    48 :> Instr("_bmi", "RELATIVE", 2) @@
    208 :> Instr("_bne", "RELATIVE", 2) @@
    16 :> Instr("_bpl", "RELATIVE", 2) @@
    0 :> Instr("_brk", "IMPLIED", 7) @@
    80 :> Instr("_bvc", "RELATIVE", 2) @@
    112 :> Instr("_bvs", "RELATIVE", 2) @@
    24 :> Instr("_clc", "IMPLIED", 2) @@
    88 :> Instr("_cli", "IMPLIED", 2) @@
    184 :> Instr("_clv", "IMPLIED", 2) @@
    201 :> Instr("_cmp", "IMMEDIATE", 2) @@
    197 :> Instr("_cmp", "ZERO_PAGE", 3) @@
    213 :> Instr("_cmp", "ZERO_PAGE_X", 4) @@
    205 :> Instr("_cmp", "ABSOLUTE", 4) @@
    221 :> Instr("_cmp", "ABSOLUTE_X", 4) @@
    217 :> Instr("_cmp", "ABSOLUTE_Y", 4) @@
    193 :> Instr("_cmp", "INDIRECT_X", 6) @@
    209 :> Instr("_cmp", "INDIRECT_Y", 5) @@
    224 :> Instr("_cpx", "IMMEDIATE", 2) @@
    228 :> Instr("_cpx", "ZERO_PAGE", 3) @@
    236 :> Instr("_cpx", "ABSOLUTE", 4) @@
    192 :> Instr("_cpy", "IMMEDIATE", 2) @@
    196 :> Instr("_cpy", "ZERO_PAGE", 3) @@
    204 :> Instr("_cpy", "ABSOLUTE", 4) @@
    198 :> Instr("_dec", "ZERO_PAGE", 5) @@
    214 :> Instr("_dec", "ZERO_PAGE_X", 6) @@
    206 :> Instr("_dec", "ABSOLUTE", 6) @@
    222 :> Instr("_dec", "ABSOLUTE_X", 7) @@
    202 :> Instr("_dex", "IMPLIED", 2) @@
    136 :> Instr("_dey", "IMPLIED", 2) @@
    73 :> Instr("_eor", "IMMEDIATE", 2) @@
    69 :> Instr("_eor", "ZERO_PAGE", 3) @@
    85 :> Instr("_eor", "ZERO_PAGE_X", 4) @@
    77 :> Instr("_eor", "ABSOLUTE", 4) @@
    93 :> Instr("_eor", "ABSOLUTE_X", 4) @@
    89 :> Instr("_eor", "ABSOLUTE_Y", 4) @@
    65 :> Instr("_eor", "INDIRECT_X", 6) @@
    81 :> Instr("_eor", "INDIRECT_Y", 5) @@
    230 :> Instr("_inc", "ZERO_PAGE", 5) @@
    246 :> Instr("_inc", "ZERO_PAGE_X", 6) @@
    238 :> Instr("_inc", "ABSOLUTE", 6) @@
    254 :> Instr("_inc", "ABSOLUTE_X", 7) @@
    232 :> Instr("_inx", "IMPLIED", 2) @@
    200 :> Instr("_iny", "IMPLIED", 2) @@
    76 :> Instr("_jmp", "ABSOLUTE", 3) @@
    108 :> Instr("_jmp", "INDIRECT", 5) @@
    32 :> Instr("_jsr", "ABSOLUTE", 6) @@
    169 :> Instr("_lda", "IMMEDIATE", 2) @@
    165 :> Instr("_lda", "ZERO_PAGE", 3) @@
    181 :> Instr("_lda", "ZERO_PAGE_X", 4) @@
    173 :> Instr("_lda", "ABSOLUTE", 4) @@
    189 :> Instr("_lda", "ABSOLUTE_X", 4) @@
    185 :> Instr("_lda", "ABSOLUTE_Y", 4) @@
    161 :> Instr("_lda", "INDIRECT_X", 6) @@
    177 :> Instr("_lda", "INDIRECT_Y", 5) @@
    162 :> Instr("_ldx", "IMMEDIATE", 2) @@
    166 :> Instr("_ldx", "ZERO_PAGE", 3) @@
    182 :> Instr("_ldx", "ZERO_PAGE_Y", 4) @@
    174 :> Instr("_ldx", "ABSOLUTE", 4) @@
    190 :> Instr("_ldx", "ABSOLUTE_Y", 4) @@
    160 :> Instr("_ldy", "IMMEDIATE", 2) @@
    164 :> Instr("_ldy", "ZERO_PAGE", 3) @@
    180 :> Instr("_ldy", "ZERO_PAGE_X", 4) @@
    172 :> Instr("_ldy", "ABSOLUTE", 4) @@
    188 :> Instr("_ldy", "ABSOLUTE_X", 4) @@
    74 :> Instr("_asr", "ACCUMULATOR", 2) @@
    70 :> Instr("_asr", "ZERO_PAGE", 5) @@
    86 :> Instr("_asr", "ZERO_PAGE_X", 6) @@
    78 :> Instr("_asr", "ABSOLUTE", 6) @@
    94 :> Instr("_asr", "ABSOLUTE_X", 7) @@
    234 :> Instr("_nop", "IMPLIED", 2) @@
    9 :> Instr("_ora", "IMMEDIATE", 2) @@
    5 :> Instr("_ora", "ZERO_PAGE", 3) @@
    21 :> Instr("_ora", "ZERO_PAGE_X", 4) @@
    13 :> Instr("_ora", "ABSOLUTE", 4) @@
    29 :> Instr("_ora", "ABSOLUTE_X", 4) @@
    25 :> Instr("_ora", "ABSOLUTE_Y", 4) @@
    1 :> Instr("_ora", "INDIRECT_X", 6) @@
    17 :> Instr("_ora", "INDIRECT_Y", 5) @@
    72 :> Instr("_pha", "IMPLIED", 3) @@
    8 :> Instr("_php", "IMPLIED", 3) @@
    104 :> Instr("_pla", "IMPLIED", 4) @@
    40 :> Instr("_plp", "IMPLIED", 4) @@
    42 :> Instr("_rol", "ACCUMULATOR", 2) @@
    38 :> Instr("_rol", "ZERO_PAGE", 5) @@
    54 :> Instr("_rol", "ZERO_PAGE_X", 6) @@
    46 :> Instr("_rol", "ABSOLUTE", 6) @@
    62 :> Instr("_rol", "ABSOLUTE_X", 7) @@
    106 :> Instr("_ror", "ACCUMULATOR", 2) @@
    102 :> Instr("_ror", "ZERO_PAGE", 5) @@
    118 :> Instr("_ror", "ZERO_PAGE_X", 6) @@
    110 :> Instr("_ror", "ABSOLUTE", 6) @@
    126 :> Instr("_ror", "ABSOLUTE_X", 7) @@
    64 :> Instr("_rti", "IMPLIED", 6) @@
    96 :> Instr("_rts", "IMPLIED", 6) @@
    233 :> Instr("_sbc", "IMMEDIATE", 2) @@
    229 :> Instr("_sbc", "ZERO_PAGE", 3) @@
    245 :> Instr("_sbc", "ZERO_PAGE_X", 4) @@
    237 :> Instr("_sbc", "ABSOLUTE", 4) @@
    253 :> Instr("_sbc", "ABSOLUTE_X", 4) @@
    249 :> Instr("_sbc", "ABSOLUTE_Y", 4) @@
    225 :> Instr("_sbc", "INDIRECT_X", 6) @@
    241 :> Instr("_sbc", "INDIRECT_Y", 5) @@
    56 :> Instr("_sec", "IMPLIED", 2) @@
    120 :> Instr("_sei", "IMPLIED", 2) @@
    133 :> Instr("_sta", "ZERO_PAGE", 3) @@
    149 :> Instr("_sta", "ZERO_PAGE_X", 4) @@
    141 :> Instr("_sta", "ABSOLUTE", 4) @@
    157 :> Instr("_sta", "ABSOLUTE_X", 5) @@
    153 :> Instr("_sta", "ABSOLUTE_Y", 5) @@
    129 :> Instr("_sta", "INDIRECT_X", 6) @@
    145 :> Instr("_sta", "INDIRECT_Y", 6) @@
    134 :> Instr("_stx", "ZERO_PAGE", 3) @@
    150 :> Instr("_stx", "ZERO_PAGE_Y", 4) @@
    142 :> Instr("_stx", "ABSOLUTE", 4) @@
    132 :> Instr("_sty", "ZERO_PAGE", 3) @@
    148 :> Instr("_sty", "ZERO_PAGE_X", 4) @@
    140 :> Instr("_sty", "ABSOLUTE", 4) @@
    170 :> Instr("_tax", "IMPLIED", 2) @@
    168 :> Instr("_tay", "IMPLIED", 2) @@
    186 :> Instr("_tsx", "IMPLIED", 2) @@
    138 :> Instr("_txa", "IMPLIED", 2) @@
    154 :> Instr("_txs", "IMPLIED", 2) @@
    152 :> Instr("_tya", "IMPLIED", 2) @@
    248 :> Instr("_sed", "IMPLIED", 2) @@
    216 :> Instr("_cld", "IMPLIED", 2) @@
    167 :> Instr("_lax", "ZERO_PAGE", 3) @@
    183 :> Instr("_lax", "ZERO_PAGE_Y", 4) @@
    175 :> Instr("_lax", "ABSOLUTE", 4) @@
    191 :> Instr("_lax", "ABSOLUTE_Y", 4) @@
    163 :> Instr("_lax", "INDIRECT_X", 6) @@
    179 :> Instr("_lax", "INDIRECT_Y", 5) @@
    135 :> Instr("_sax", "ZERO_PAGE", 3) @@
    151 :> Instr("_sax", "ZERO_PAGE_Y", 4) @@
    143 :> Instr("_sax", "ABSOLUTE", 4) @@
    131 :> Instr("_sax", "INDIRECT_X", 6) @@
    235 :> Instr("_sbc_illegal", "IMMEDIATE", 2) @@
    199 :> Instr("_dcp", "ZERO_PAGE", 5) @@
    215 :> Instr("_dcp", "ZERO_PAGE_X", 6) @@
    207 :> Instr("_dcp", "ABSOLUTE", 6) @@
    223 :> Instr("_dcp", "ABSOLUTE_X", 7) @@
    219 :> Instr("_dcp", "ABSOLUTE_Y", 7) @@
    195 :> Instr("_dcp", "INDIRECT_X", 8) @@
    211 :> Instr("_dcp", "INDIRECT_Y", 8) @@
    231 :> Instr("_isb", "ZERO_PAGE", 5) @@
    247 :> Instr("_isb", "ZERO_PAGE_X", 6) @@
    239 :> Instr("_isb", "ABSOLUTE", 6) @@
    255 :> Instr("_isb", "ABSOLUTE_X", 7) @@
    251 :> Instr("_isb", "ABSOLUTE_Y", 7) @@
    227 :> Instr("_isb", "INDIRECT_X", 8) @@
    243 :> Instr("_isb", "INDIRECT_Y", 8) @@
    7 :> Instr("_slo", "ZERO_PAGE", 5) @@
    23 :> Instr("_slo", "ZERO_PAGE_X", 6) @@
    15 :> Instr("_slo", "ABSOLUTE", 6) @@
    31 :> Instr("_slo", "ABSOLUTE_X", 7) @@
    27 :> Instr("_slo", "ABSOLUTE_Y", 7) @@
    3 :> Instr("_slo", "INDIRECT_X", 8) @@
    19 :> Instr("_slo", "INDIRECT_Y", 8) @@
    39 :> Instr("_rla", "ZERO_PAGE", 5) @@
    55 :> Instr("_rla", "ZERO_PAGE_X", 6) @@
    47 :> Instr("_rla", "ABSOLUTE", 6) @@
    63 :> Instr("_rla", "ABSOLUTE_X", 7) @@
    59 :> Instr("_rla", "ABSOLUTE_Y", 7) @@
    35 :> Instr("_rla", "INDIRECT_X", 8) @@
    51 :> Instr("_rla", "INDIRECT_Y", 8) @@
    71 :> Instr("_sre", "ZERO_PAGE", 5) @@
    87 :> Instr("_sre", "ZERO_PAGE_X", 6) @@
    79 :> Instr("_sre", "ABSOLUTE", 6) @@
    95 :> Instr("_sre", "ABSOLUTE_X", 7) @@
    91 :> Instr("_sre", "ABSOLUTE_Y", 7) @@
    67 :> Instr("_sre", "INDIRECT_X", 8) @@
    83 :> Instr("_sre", "INDIRECT_Y", 8) @@
    103 :> Instr("_rra", "ZERO_PAGE", 5) @@
    119 :> Instr("_rra", "ZERO_PAGE_X", 6) @@
    111 :> Instr("_rra", "ABSOLUTE", 6) @@
    127 :> Instr("_rra", "ABSOLUTE_X", 7) @@
    123 :> Instr("_rra", "ABSOLUTE_Y", 7) @@
    99 :> Instr("_rra", "INDIRECT_X", 8) @@
    115 :> Instr("_rra", "INDIRECT_Y", 8) @@
    26 :> Instr("_nop_illegal", "IMPLIED", 2) @@
    58 :> Instr("_nop_illegal", "IMPLIED", 2) @@
    90 :> Instr("_nop_illegal", "IMPLIED", 2) @@
    122 :> Instr("_nop_illegal", "IMPLIED", 2) @@
    218 :> Instr("_nop_illegal", "IMPLIED", 2) @@
    250 :> Instr("_nop_illegal", "IMPLIED", 2) @@
    128 :> Instr("_nop_illegal", "IMMEDIATE", 2) @@
    130 :> Instr("_nop_illegal", "IMMEDIATE", 2) @@
    137 :> Instr("_nop_illegal", "IMMEDIATE", 2) @@
    194 :> Instr("_nop_illegal", "IMMEDIATE", 2) @@
    226 :> Instr("_nop_illegal", "IMMEDIATE", 2) @@
    4 :> Instr("_nop_illegal", "ZERO_PAGE", 3) @@
    68 :> Instr("_nop_illegal", "ZERO_PAGE", 3) @@
    100 :> Instr("_nop_illegal", "ZERO_PAGE", 3) @@
    20 :> Instr("_nop_illegal", "ZERO_PAGE_X", 4) @@
    52 :> Instr("_nop_illegal", "ZERO_PAGE_X", 4) @@
    84 :> Instr("_nop_illegal", "ZERO_PAGE_X", 4) @@
    116 :> Instr("_nop_illegal", "ZERO_PAGE_X", 4) @@
    212 :> Instr("_nop_illegal", "ZERO_PAGE_X", 4) @@
    244 :> Instr("_nop_illegal", "ZERO_PAGE_X", 4) @@
    12 :> Instr("_nop_illegal", "ABSOLUTE", 4) @@
    28 :> Instr("_nop_illegal", "ABSOLUTE_X", 4) @@
    60 :> Instr("_nop_illegal", "ABSOLUTE_X", 4) @@
    92 :> Instr("_nop_illegal", "ABSOLUTE_X", 4) @@
    124 :> Instr("_nop_illegal", "ABSOLUTE_X", 4) @@
    220 :> Instr("_nop_illegal", "ABSOLUTE_X", 4) @@
    252 :> Instr("_nop_illegal", "ABSOLUTE_X", 4)

\* cpu_instr.function(self, ...)
Exec(m, function, arg) ==
    CASE function = "_adc" -> _adc(m, arg)
      [] function = "_and" -> _and(m, arg)
      [] function = "_asl" -> _asl(m, arg)
      [] function = "_bcc" -> _bcc(m, arg)
      [] function = "_bcs" -> _bcs(m, arg)
      [] function = "_beq" -> _beq(m, arg)
      [] function = "_bit" -> _bit(m, arg)
      [] function = "_bmi" -> _bmi(m, arg)
      [] function = "_bne" -> _bne(m, arg)
      [] function = "_bpl" -> _bpl(m, arg)
      [] function = "_brk" -> _brk(m, arg)
      [] function = "_bvc" -> _bvc(m, arg)
      [] function = "_bvs" -> _bvs(m, arg)
      [] function = "_clc" -> _clc(m, arg)
      [] function = "_cli" -> _cli(m, arg)
      [] function = "_clv" -> _clv(m, arg)
      [] function = "_cmp" -> _cmp(m, arg)
      [] function = "_cpx" -> _cpx(m, arg)
      [] function = "_cpy" -> _cpy(m, arg)
      [] function = "_dec" -> _dec(m, arg)
      [] function = "_dex" -> _dex(m, arg)
      [] function = "_dey" -> _dey(m, arg)
      [] function = "_eor" -> _eor(m, arg)
      [] function = "_inc" -> _inc(m, arg)
      [] function = "_inx" -> _inx(m, arg)
      [] function = "_iny" -> _iny(m, arg)
      [] function = "_jmp" -> _jmp(m, arg)
      [] function = "_jsr" -> _jsr(m, arg)
      [] function = "_lda" -> _lda(m, arg)
      [] function = "_ldx" -> _ldx(m, arg)
      [] function = "_ldy" -> _ldy(m, arg)
      [] function = "_asr" -> _asr(m, arg)
      [] function = "_nop" -> _nop(m, arg)
      [] function = "_ora" -> _ora(m, arg)
      [] function = "_pha" -> _pha(m, arg)
      [] function = "_php" -> _php(m, arg)
      [] function = "_pla" -> _pla(m, arg)
      [] function = "_plp" -> _plp(m, arg)
      [] function = "_rol" -> _rol(m, arg)
      [] function = "_ror" -> _ror(m, arg)
      [] function = "_rti" -> _rti(m, arg)
      [] function = "_rts" -> _rts(m, arg)
      [] function = "_sbc" -> _sbc(m, arg)
      [] function = "_sec" -> _sec(m, arg)
      [] function = "_sei" -> _sei(m, arg)
      [] function = "_sta" -> _sta(m, arg)
      [] function = "_stx" -> _stx(m, arg)
      [] function = "_sty" -> _sty(m, arg)
      [] function = "_tax" -> _tax(m, arg)
      [] function = "_tay" -> _tay(m, arg)
      [] function = "_tsx" -> _tsx(m, arg)
      [] function = "_txa" -> _txa(m, arg)
      [] function = "_txs" -> _txs(m, arg)
      [] function = "_tya" -> _tya(m, arg)
      [] function = "_sed" -> _sed(m, arg)
      [] function = "_cld" -> _cld(m, arg)
      [] function = "_lax" -> _lax(m, arg)
      [] function = "_sax" -> _sax(m, arg)
      [] function = "_sbc_illegal" -> _sbc_illegal(m, arg)
      [] function = "_dcp" -> _dcp(m, arg)
      [] function = "_isb" -> _isb(m, arg)
      [] function = "_slo" -> _slo(m, arg)
      [] function = "_rla" -> _rla(m, arg)
      [] function = "_sre" -> _sre(m, arg)
      [] function = "_rra" -> _rra(m, arg)
      [] function = "_nop_illegal" -> _nop_illegal(m, arg)

(***************************************************************************)
(* Cpu.process: fetch, decode, resolve the operand, execute, count.        *)
(* _log_instruction reads the operand bytes the resolution below reads     *)
(* first, at the same pc, so it raises exactly when that read does.        *)
(***************************************************************************)
\* the addressing-mode ladder of Cpu.process: [m, arg]
\* the addressing-mode ladder with zero-page,X and zero-page,Y left unmasked
resolve_unwrapped(m, addr_mode) ==
    LET byte == read(m, m.pc)
        word == _read_word(m, m.pc, FALSE)
        fail(e) == [m |-> Raise(m, e), arg |-> NoArg]
        next(n, arg) == [m |-> [m EXCEPT !.pc = @ + n], arg |-> arg]
    IN CASE addr_mode \in {"IMPLIED", "ACCUMULATOR"} -> [m |-> m, arg |-> NoArg]
         [] addr_mode \in {"IMMEDIATE", "RELATIVE"} ->
                IF byte.err # OK THEN fail(byte.err)
                ELSE next(1, ValueArg(byte.val))
         [] addr_mode = "ZERO_PAGE" ->
                IF byte.err # OK THEN fail(byte.err)
                ELSE next(1, AddrArg(byte.val))
         [] addr_mode = "ZERO_PAGE_X" ->
                IF byte.err # OK THEN fail(byte.err)
                ELSE next(1, AddrArg(byte.val + m.x))
         [] addr_mode = "ZERO_PAGE_Y" ->
                IF byte.err # OK THEN fail(byte.err)
                ELSE next(1, AddrArg(byte.val + m.y))
         [] addr_mode = "ABSOLUTE" ->
                IF word.err # OK THEN fail(word.err)
                ELSE next(2, AddrArg(word.val))
         [] addr_mode = "ABSOLUTE_X" ->
                IF word.err # OK THEN fail(word.err)
                ELSE next(2, AddrArg(BitAnd(word.val + m.x, _MASK16)))
         [] addr_mode = "ABSOLUTE_Y" ->
                IF word.err # OK THEN fail(word.err)
                ELSE next(2, AddrArg(BitAnd(word.val + m.y, _MASK16)))
         [] addr_mode = "INDIRECT" ->
                IF word.err # OK THEN fail(word.err)
                ELSE LET w == _read_word(m, word.val, TRUE)
                     IN IF w.err # OK THEN fail(w.err)
                        ELSE next(2, AddrArg(w.val))
         [] addr_mode = "INDIRECT_X" ->
                IF byte.err # OK THEN fail(byte.err)
                ELSE LET w == _read_word(m, BitAnd(byte.val + m.x, _MASK8), TRUE)
                     IN IF w.err # OK THEN fail(w.err)
                        ELSE next(1, AddrArg(w.val))
         [] OTHER ->
                IF byte.err # OK THEN fail(byte.err)
                ELSE LET w == _read_word(m, byte.val, TRUE)
                     IN IF w.err # OK THEN fail(w.err)
                        ELSE next(1, AddrArg(BitAnd(w.val + m.y, _MASK16)))

resolve(m, addr_mode) ==
    LET byte == read(m, m.pc)
        word == _read_word(m, m.pc, FALSE)
        fail(e) == [m |-> Raise(m, e), arg |-> NoArg]
        next(n, arg) == [m |-> [m EXCEPT !.pc = @ + n], arg |-> arg]
    IN CASE addr_mode \in {"IMPLIED", "ACCUMULATOR"} -> [m |-> m, arg |-> NoArg]
         [] addr_mode \in {"IMMEDIATE", "RELATIVE"} ->
                IF byte.err # OK THEN fail(byte.err)
                ELSE next(1, ValueArg(byte.val))
         [] addr_mode = "ZERO_PAGE" ->
                IF byte.err # OK THEN fail(byte.err)
                ELSE next(1, AddrArg(byte.val))
         [] addr_mode = "ZERO_PAGE_X" ->
                IF byte.err # OK THEN fail(byte.err)
                ELSE next(1, AddrArg(BitAnd(byte.val + m.x, _MASK8)))
         [] addr_mode = "ZERO_PAGE_Y" ->
                IF byte.err # OK THEN fail(byte.err)
                ELSE next(1, AddrArg(BitAnd(byte.val + m.y, _MASK8)))
         [] addr_mode = "ABSOLUTE" ->
                IF word.err # OK THEN fail(word.err)
                ELSE next(2, AddrArg(word.val))
         [] addr_mode = "ABSOLUTE_X" ->
                IF word.err # OK THEN fail(word.err)
                ELSE next(2, AddrArg(BitAnd(word.val + m.x, _MASK16)))
         [] addr_mode = "ABSOLUTE_Y" ->
                IF word.err # OK THEN fail(word.err)
                ELSE next(2, AddrArg(BitAnd(word.val + m.y, _MASK16)))
         [] addr_mode = "INDIRECT" ->
                IF word.err # OK THEN fail(word.err)
                ELSE LET w == _read_word(m, word.val, TRUE)
                     IN IF w.err # OK THEN fail(w.err)
                        ELSE next(2, AddrArg(w.val))
         [] addr_mode = "INDIRECT_X" ->
                IF byte.err # OK THEN fail(byte.err)
                ELSE LET w == _read_word(m, BitAnd(byte.val + m.x, _MASK8), TRUE)
                     IN IF w.err # OK THEN fail(w.err)
                        ELSE next(1, AddrArg(w.val))
         [] OTHER ->
                IF byte.err # OK THEN fail(byte.err)
                ELSE LET w == _read_word(m, byte.val, TRUE)
                     IN IF w.err # OK THEN fail(w.err)
                        ELSE next(1, AddrArg(BitAnd(w.val + m.y, _MASK16)))

\* Cpu.process stepping over an operand byte in the implied and
\* accumulator modes too
dispatch_operand_always(m, cpu_instr) ==
    LET o == resolve([m EXCEPT !.pc = @ + 1], cpu_instr.addr_mode)
        skipped == IF cpu_instr.addr_mode \in {"IMPLIED", "ACCUMULATOR"}
                   THEN [o.m EXCEPT !.pc = @ + 1]
                   ELSE o.m
        m1 == IF o.m.err # OK THEN o.m
              ELSE Exec(skipped, cpu_instr.function, o.arg)
    IN IF m1.err # OK THEN m1
       ELSE [m1 EXCEPT !.cycles_count = @ + cpu_instr.cycles]

\* Cpu.process charging one more cycle when absolute,X or absolute,Y
\* indexing leaves the operand's page, as the hardware does
dispatch_page_cross(m, cpu_instr) ==
    LET o == resolve([m EXCEPT !.pc = @ + 1], cpu_instr.addr_mode)
        m1 == IF o.m.err # OK THEN o.m
              ELSE Exec(o.m, cpu_instr.function, o.arg)
        index == IF cpu_instr.addr_mode = "ABSOLUTE_X" THEN m.x
                 ELSE IF cpu_instr.addr_mode = "ABSOLUTE_Y" THEN m.y
                 ELSE 0
        crossed == read(m, m.pc + 1).val + index > 255
    IN IF m1.err # OK THEN m1
       ELSE [m1 EXCEPT !.cycles_count =
                @ + cpu_instr.cycles + (IF crossed THEN 1 ELSE 0)]

\* Cpu.process from `self._pc += 1` on, for the decoded table entry
dispatch(m, cpu_instr) ==
    LET o == resolve([m EXCEPT !.pc = @ + 1], cpu_instr.addr_mode)
        m1 == IF o.m.err # OK THEN o.m
              ELSE Exec(o.m, cpu_instr.function, o.arg)
    IN IF m1.err # OK THEN m1
       ELSE [m1 EXCEPT !.cycles_count = @ + cpu_instr.cycles]

\* Cpu.process advancing pc before the table lookup
process_lookup_late(m) ==
    LET opcode == read(m, m.pc)
    IN IF opcode.err # OK THEN Raise(m, opcode.err)
       ELSE IF opcode.val \notin DOMAIN _instructions
            THEN Raise([m EXCEPT !.pc = @ + 1], KeyError)
       ELSE dispatch(m, _instructions[opcode.val])

\* Cpu.process
process(m) ==
    LET opcode == read(m, m.pc)
    IN IF opcode.err # OK THEN Raise(m, opcode.err)
       ELSE IF opcode.val \notin DOMAIN _instructions THEN Raise(m, KeyError)
       ELSE dispatch(m, _instructions[opcode.val])

\* Cpu.reset
reset(m) ==
    LET w == _read_word(m, _RESET_VECTOR_ADDR, FALSE)
    IN IF w.err # OK THEN Raise(m, w.err)
       ELSE [m EXCEPT !.pc = w.val, !.ps = PSRegister, !.a = 0, !.x = 0,
                      !.y = 0, !.sp = _STACK_POINTER_INIT_VAL,
                      !.cycles_count = 0]

(***************************************************************************)
(* The state: the fields of the Cpu, the bus and the cartridge it owns,    *)
(* the PPU's registers, the exception the last call raised, the number of  *)
(* calls made so far, the last call with the machine it was made on, and   *)
(* the call before it with its machine and its outcome.                    *)
(***************************************************************************)
VARIABLES pc, a, x, y, sp, ps, cycles_count, ram, cart, ppu_ctrl, ppu_mask,
          err, steps, last, prior

vars == <<pc, a, x, y, sp, ps, cycles_count, ram, cart, ppu_ctrl, ppu_mask,
          err, steps, last, prior>>

\* the machine record of the current state
Machine ==
    [pc |-> pc, a |-> a, x |-> x, y |-> y, sp |-> sp, ps |-> ps,
     cycles_count |-> cycles_count, ram |-> ram, cart |-> cart,
     ppu_ctrl |-> ppu_ctrl, ppu_mask |-> ppu_mask, err |-> OK]

\* the next state holds machine record m
Becomes(m) ==
    /\ pc' = m.pc
    /\ a' = m.a
    /\ x' = m.x
    /\ y' = m.y
    /\ sp' = m.sp
    /\ ps' = m.ps
    /\ cycles_count' = m.cycles_count
    /\ ram' = m.ram
    /\ cart' = m.cart
    /\ ppu_ctrl' = m.ppu_ctrl
    /\ ppu_mask' = m.ppu_mask
    /\ err' = m.err

\* the current state holds machine record m, after `n` calls
Holds(m, n) ==
    /\ pc = m.pc
    /\ a = m.a
    /\ x = m.x
    /\ y = m.y
    /\ sp = m.sp
    /\ ps = m.ps
    /\ cycles_count = m.cycles_count
    /\ ram = m.ram
    /\ cart = m.cart
    /\ ppu_ctrl = m.ppu_ctrl
    /\ ppu_mask = m.ppu_mask
    /\ err = m.err
    /\ steps = n
    /\ last = [op |-> "init", pre |-> m]
    /\ prior = [op |-> "none", pre |-> m, err |-> OK]

(***************************************************************************)
(* Cartridge images.  An image holds a program at address org and the      *)
(* reset vector pointing at it; every other byte is 0.                     *)
(***************************************************************************)
\* bounds of the model
MaxSteps == 4

MaxProg == 3

RECURSIVE Flatten(_)
Flatten(ss) == IF ss = <<>> THEN <<>> ELSE Head(ss) \o Flatten(Tail(ss))

\* bytes `prog` at address org of an image of `len` bytes, then the reset
\* vector (written last, so it wins over a program lying under it)
Image(len, org, prog) ==
    LET vec == (_RESET_VECTOR_ADDR - CART_BASE :> org % 256)
               @@ (_RESET_VECTOR_ADDR + 1 - CART_BASE :> (org \div 256) % 256)
        base == org - CART_BASE
        code == (base .. base + Len(prog) - 1) \cap (0 .. len - 1)
        offs == code \cup DOMAIN vec
        val(o) == IF o \in DOMAIN vec THEN vec[o] ELSE prog[o - base + 1]
    IN [len |-> len, rom |-> [o \in {k \in offs : val(k) # 0} |-> val(o)]]

\* a machine as Cpu.__init__ leaves it: zeroed RAM, then reset()
Constructed(c) ==
    reset([pc |-> 0, a |-> 0, x |-> 0, y |-> 0, sp |-> 0, ps |-> PSRegister,
           cycles_count |-> 0, ram |-> <<>>, cart |-> c,
           ppu_ctrl |-> 0, ppu_mask |-> 0, err |-> OK])

\* the instructions the programs of Spec are made of
Snippets ==
    { <<0>>,            \* BRK
      <<2>>,            \* not in the table
      <<8>>,            \* PHP
      <<40>>,           \* PLP
      <<64>>,           \* RTI
      <<72>>,           \* PHA
      <<104>>,          \* PLA
      <<154>>,          \* TXS
      <<169, 255>>,     \* LDA #$FF
      <<234>>,          \* NOP
      <<16, 127>>,      \* BPL +127
      <<96>>,           \* RTS
      <<56>>,           \* SEC
      <<186>> }         \* TSX

Programs == {Flatten(p) : p \in [1 .. MaxProg -> Snippets]}

Layouts == { <<32768, 49152>>, <<32768, 65535>>, <<65536, 65535>> }

Cartridges == {Image(l[1], l[2], p) : l \in Layouts, p \in Programs}

\* construction: a Cpu on a bus on a cartridge
Init ==
    \E c \in Cartridges :
        /\ Constructed(c).err = OK
        /\ Holds(Constructed(c), 0)

(***************************************************************************)
(* The operations of the Cpu.                                              *)
(***************************************************************************)
Process ==
    /\ steps < MaxSteps
    /\ Becomes(process(Machine))
    /\ steps' = steps + 1
    /\ last' = [op |-> "process", pre |-> Machine]
    /\ prior' = [op |-> last.op, pre |-> last.pre, err |-> err]

Reset ==
    /\ steps < MaxSteps
    /\ Becomes(reset(Machine))
    /\ steps' = steps + 1
    /\ last' = [op |-> "reset", pre |-> Machine]
    /\ prior' = [op |-> last.op, pre |-> last.pre, err |-> err]

Next == Process \/ Reset

Spec == Init /\ [][Next]_vars

(***************************************************************************)
(* Machines in mid-run.  Every register value below is one a program       *)
(* brings about from reset: A, X, Y by LDA/LDX/LDY #v, SP by TXS, P by     *)
(* PHA and RTI (any byte with bit 5), pc by JMP, RAM by STA.  The          *)
(* cartridge holds the instruction under test at pc; its other bytes take  *)
(* no part in the step.  One call is left within MaxSteps.                 *)
(***************************************************************************)
MidRun(c, at, regs, mem) ==
    [pc |-> at, a |-> regs.a, x |-> regs.x, y |-> regs.y, sp |-> regs.sp,
     ps |-> regs.ps, cycles_count |-> 7, ram |-> mem, cart |-> c,
     ppu_ctrl |-> 0, ppu_mask |-> 0, err |-> OK]

Regs(ra, rx, ry, rsp, rps) == [a |-> ra, x |-> rx, y |-> ry, sp |-> rsp, ps |-> rps]

Profiles ==
    { Regs(0, 0, 0, 253, 32),
      Regs(127, 1, 240, 255, 33),
      Regs(128, 255, 1, 0, 227),
      Regs(255, 16, 128, 128, 61) }

RamPattern ==
    (0 :> 128) @@ (1 :> 2) @@ (16 :> 127) @@ (17 :> 2) @@ (32 :> 255)
    @@ (128 :> 1) @@ (255 :> 16) @@ (256 :> 1) @@ (384 :> 129)
    @@ (510 :> 52) @@ (511 :> 18) @@ (512 :> 64) @@ (513 :> 3)
    @@ (528 :> 255) @@ (767 :> 254) @@ (2047 :> 85)

OperandLo == {0, 16, 128, 255}

OperandHi == {0, 2, 32, 192}

StepOrigins == {49152, 65534}

\* SpecStep: any one instruction form, from a sample of machine states
InitStep ==
    \E opcode \in Byte, lo \in OperandLo, hi \in OperandHi,
       org \in StepOrigins, regs \in Profiles :
        Holds(MidRun(Image(32768, org, <<opcode, lo, hi>>), org, regs, RamPattern),
              MaxSteps - 1)

SpecStep == InitStep /\ [][Next]_vars

\* SpecBranch: each branch, every offset, every N V Z C, three places
BranchOpcodes == {16, 48, 80, 112, 144, 176, 208, 240}

BranchFlags == {32 + 128 * n + 64 * v + 2 * z + c : n, v, z, c \in {0, 1}}

\* a branch at $C000, one whose operand ends its page ($C0FE), one in RAM
BranchOrigins == {49152, 49406, 0}

InitBranch ==
    \E opcode \in BranchOpcodes, off \in Byte, f \in BranchFlags,
       org \in BranchOrigins :
        Holds(MidRun(IF org = 0 THEN Image(32768, 49152, <<>>)
                     ELSE Image(32768, org, <<opcode, off>>),
                     org, Regs(0, 0, 0, 253, f),
                     IF org = 0 THEN Poke(Poke(<<>>, 0, opcode), 1, off) ELSE <<>>),
              MaxSteps - 1)

SpecBranch == InitBranch /\ [][Next]_vars

ByteSamples == {0, 1, 80, 127, 128, 160, 176, 255}

\* SpecAdc: ADC #M for every A, M and carry, with and without D; ADC zp
\* and other flag settings on the sampled bytes
ArithFlags == {32, 33, 40, 41, 234, 235}

InitAdc ==
    \E ra \in Byte, mem \in Byte, f \in ArithFlags, opcode \in {105, 101} :
        /\ (f \in {32, 33} /\ opcode = 105) \/ (ra \in ByteSamples /\ mem \in ByteSamples)
        /\ Holds(MidRun(Image(32768, 49152,
                              IF opcode = 105 THEN <<105, mem>> ELSE <<101, 16>>),
                        49152, Regs(ra, 0, 0, 253, f),
                        IF opcode = 105 THEN <<>> ELSE Poke(<<>>, 16, mem)),
                 MaxSteps - 1)

SpecAdc == InitAdc /\ [][Next]_vars

\* SpecSbc: SBC #M ($E9) and its twin $EB for every A, M and carry; SBC zp
\* and other flag settings on the sampled bytes
InitSbc ==
    \E ra \in Byte, mem \in Byte, f \in ArithFlags, opcode \in {233, 235, 229} :
        /\ (f \in {32, 33} /\ opcode # 229) \/ (ra \in ByteSamples /\ mem \in ByteSamples)
        /\ Holds(MidRun(Image(32768, 49152,
                              IF opcode = 229 THEN <<229, 16>> ELSE <<opcode, mem>>),
                        49152, Regs(ra, 0, 0, 253, f),
                        IF opcode = 229 THEN Poke(<<>>, 16, mem) ELSE <<>>),
                 MaxSteps - 1)

SpecSbc == InitSbc /\ [][Next]_vars

\* SpecJmp: JMP (p) for pointers p in RAM, on and off a page's last byte,
\* with the bytes at p, p + 1 and the start of p's page drawn
PointerLo == {0, 1, 127, 254, 255}

PointerHi == {0, 2, 7}

PointedBytes == {0, 18, 52, 255}

InitJmp ==
    \E lo \in PointerLo, hi \in PointerHi,
       v0 \in PointedBytes, v1 \in PointedBytes, v2 \in PointedBytes :
        LET p == lo + 256 * hi
            mem == Poke(Poke(Poke(<<>>, (p + 1) % _RAM_SIZE, v1), p - lo, v2), p, v0)
        IN Holds(MidRun(Image(32768, 49152, <<108, lo, hi>>), 49152,
                        Regs(0, 0, 0, 253, 32), mem),
                 MaxSteps - 1)

SpecJmp == InitJmp /\ [][Next]_vars

\* RAM with the bytes of prog laid out from address at
RECURSIVE Placed(_, _, _)
Placed(mem, at, prog) ==
    IF prog = <<>> THEN mem
    ELSE Placed(Poke(mem, at % _RAM_SIZE, Head(prog)), at + 1, Tail(prog))

\* a machine two calls before MaxSteps, about to run prog at address at,
\* in the cartridge or (below $2000) in RAM
Poised(at, prog, regs, mem) ==
    Holds(MidRun(IF at < _RAM_END THEN Image(32768, 49152, <<>>)
                 ELSE Image(32768, at, prog),
                 at, regs,
                 IF at < _RAM_END THEN Placed(mem, at, prog) ELSE mem),
          MaxSteps - 2)

StackPointers == {0, 1, 2, 128, 253, 255}

\* SpecCall: JSR t at address a, in ROM and in RAM, next to a page end or
\* not, with an RTS at t, from each stack pointer
CallOrigins == {32768, 49152, 49406, 0, 765}

CallTargets == {16, 512, 2032}

InitCall ==
    \E at \in CallOrigins, t \in CallTargets, rsp \in StackPointers,
       regs \in Profiles :
        Poised(at, <<32, t % 256, t \div 256>>, [regs EXCEPT !.sp = rsp],
               Poke(<<>>, t, 96))

SpecCall == InitCall /\ [][Next]_vars

\* SpecStack: PHA; PLA for every A on the sampled stack pointers and for
\* the sampled A on every stack pointer; PHP; PLP for every P and stack
\* pointer; PLP alone on every byte on top of the stack under every P
StatusBytes == {v \in Byte : BitAnd(v, _MASK) = _MASK}

StackFlags == {32, 110, 163, 239}

InitStack ==
    \/ \E ra \in Byte, rsp \in Byte, f \in StackFlags :
           /\ rsp \in StackPointers \/ ra \in ByteSamples
           /\ Poised(49152, <<72, 104>>, Regs(ra, 1, 240, rsp, f), <<>>)
    \/ \E rsp \in Byte, f \in StatusBytes :
           Poised(49152, <<8, 40>>, Regs(127, 1, 240, rsp, f), <<>>)
    \/ \E b \in Byte, f \in StatusBytes, rsp \in {252, 255} :
           Poised(49152, <<40, 234>>, Regs(127, 1, 240, rsp, f),
                  Poke(<<>>, BitOr(_STACK_PAGE_ADDR, rsp + 1), b))

SpecStack == InitStack /\ [][Next]_vars

\* SpecFlag: each flag instruction twice in a row, from every P
FlagOpcodes == {24, 56, 88, 120, 184, 216, 248}

InitFlag ==
    \E opcode \in FlagOpcodes, f \in StatusBytes, ra \in {0, 129} :
        Poised(49152, <<opcode, opcode>>, Regs(ra, 1, 240, 253, f), RamPattern)

SpecFlag == InitFlag /\ [][Next]_vars

\* SpecCompare: CMP, CPX and CPY immediate for every register value and
\* operand; their zero-page forms and other flags on the sampled bytes
CompareOpcodes == {201, 224, 192, 197, 228, 196}

InitCompare ==
    \E r \in Byte, mem \in Byte, f \in {32, 227}, opcode \in CompareOpcodes :
        /\ (f = 227 /\ opcode \in {201, 224, 192})
           \/ (r \in ByteSamples /\ mem \in ByteSamples)
        /\ Holds(MidRun(Image(32768, 49152,
                              IF opcode \in {201, 224, 192} THEN <<opcode, mem>>
                              ELSE <<opcode, 16>>),
                        49152,
                        Regs(IF opcode \in {201, 197} THEN r ELSE 127,
                             IF opcode \in {224, 228} THEN r ELSE 1,
                             IF opcode \in {192, 196} THEN r ELSE 240,
                             253, f),
                        IF opcode \in {201, 224, 192} THEN <<>>
                        ELSE Poke(<<>>, 16, mem)),
                 MaxSteps - 1)

SpecCompare == InitCompare /\ [][Next]_vars

\* SpecZeroPage: a load through zero-page,X, zero-page,Y, (indirect,X) and
\* (indirect),Y for every operand byte and the sampled index values, on a
\* RAM whose zero page holds pointers into RAM and whose every byte tells
\* its address from its neighbours'
ZeroPageOpcodes == {181, 182, 161, 177}

IndexValues == {0, 1, 16, 128, 255}

PatternByte(k) ==
    IF k < 256 THEN (7 * k + 3) % 32 ELSE (13 * k + 7 * (k \div 256) + 5) % 256

PatternedRam ==
    [o \in {k \in 0 .. _RAM_SIZE - 1 : PatternByte(k) # 0} |-> PatternByte(o)]

InitZeroPage ==
    \E opcode \in ZeroPageOpcodes, zp \in Byte, index \in IndexValues :
        Holds(MidRun(Image(32768, 49152, <<opcode, zp>>), 49152,
                     Regs(127, index, index, 253, 32), PatternedRam),
              MaxSteps - 1)

SpecZeroPage == InitZeroPage /\ [][Next]_vars

(***************************************************************************)
(* The bus on its own: CpuMemoryMapper.read and CpuMemoryMapper.write      *)
(* called from outside the Cpu, on a 32 KiB and on a 16 KiB image.  last   *)
(* also holds the address of the call and the byte written or returned.    *)
(***************************************************************************)
RamProbes == {2048 * k + o : k \in 0 .. 3, o \in {0, 1, 2, 255, 256, 2046, 2047}}

BusAddresses ==
    RamProbes
    \cup {8192, 8193, 8195, 8200, 8201, 16383}       \* PPU ports
    \cup {16384, 16407}                              \* APU and I/O
    \cup {16408, 16415}                              \* unused
    \cup {16416, 24576, 32767}                       \* cartridge, below $8000
    \cup {32768, 32769, 49151, 49152, 49153, 65532, 65533, 65535}

BusValues == {0, 1, 129, 255}

\* an image of len bytes whose byte at offset o is never 0 and differs
\* between offsets 16 KiB apart
PrgImage(len) ==
    [len |-> len,
     rom |-> [o \in {0, 1, 16383, 16384, 16385, 32764, 32765, 32767}
                    \cap (0 .. len - 1) |-> 1 + ((3 * o + (o \div 16384)) % 255)]]

InitBus ==
    \E len \in {16384, 32768}, mem \in {<<>>, RamPattern} :
        Holds(MidRun(PrgImage(len), 0, Regs(0, 0, 0, 253, 32), mem), MaxSteps - 2)

BusRead ==
    /\ steps < MaxSteps
    /\ \E addr \in BusAddresses :
           LET r == read(Machine, addr)
           IN /\ Becomes([Machine EXCEPT !.err = r.err])
              /\ last' = [op |-> "read", pre |-> Machine, addr |-> addr,
                          value |-> r.val]
    /\ steps' = steps + 1
    /\ prior' = [op |-> last.op, pre |-> last.pre, err |-> err]

BusWrite ==
    /\ steps < MaxSteps
    /\ \E addr \in BusAddresses, value \in BusValues :
           /\ Becomes(write(Machine, addr, value))
           /\ last' = [op |-> "write", pre |-> Machine, addr |-> addr,
                       value |-> value]
    /\ steps' = steps + 1
    /\ prior' = [op |-> last.op, pre |-> last.pre, err |-> err]

NextBus == BusRead \/ BusWrite

SpecBus == InitBus /\ [][NextBus]_vars

(***************************************************************************)
(* What the last call was, read off the machine it was made on.            *)
(***************************************************************************)
Stepped == last.op = "process"

Completed == Stepped /\ err = OK

\* the byte at pc when process was called, and the bytes after it
Fetched == read(last.pre, last.pre.pc)

LastOpcode == Fetched.val

Operand1 == read(last.pre, last.pre.pc + 1).val

Operand2 == read(last.pre, last.pre.pc + 2).val

Bit(v, i) == (v \div 2^i) % 2

\* every register, the cycle counter and memory are as before the call
Untouched ==
    /\ pc = last.pre.pc
    /\ a = last.pre.a
    /\ x = last.pre.x
    /\ y = last.pre.y
    /\ sp = last.pre.sp
    /\ ps = last.pre.ps
    /\ cycles_count = last.pre.cycles_count
    /\ ram = last.pre.ram
    /\ cart = last.pre.cart
    /\ ppu_ctrl = last.pre.ppu_ctrl
    /\ ppu_mask = last.pre.ppu_mask

\* the little-endian word the cartridge holds at $FFFC/$FFFD
ResetVector == Peek(cart.rom, 32764) + 256 * Peek(cart.rom, 32765)

(***************************************************************************)
(* The claims.                                                             *)
(***************************************************************************)

\* C1: after construction and after reset(), PC is the little-endian word
\* at $FFFC/$FFFD, SP = $FD, A = X = Y = 0, P = $24 and cycles = 0.
C1_ResetState ==
    (last.op \in {"init", "reset"} /\ err = OK) =>
        /\ pc = ResetVector
        /\ sp = 253
        /\ a = 0 /\ x = 0 /\ y = 0
        /\ ps = 36
        /\ cycles_count = 0

\* C2: bit 5 of P is 1 in every reachable state.
C2_Bit5Set == Bit(ps, 5) = 1

\* a completed PLP or RTI that pulled a byte whose bit 5 is 0
C2_Witness ==
    /\ Completed
    /\ LastOpcode \in {40, 64}
    /\ Bit(read(last.pre, 256 + last.pre.sp + 1).val, 5) = 0
    /\ last.pre.sp \in 0 .. 254

\* C3: SP stays in $00..$FF; a push leaves SP = (SP - 1) mod 256 and a pull
\* SP = (SP + 1) mod 256, so every stack access lies in $0100..$01FF.
C3_StackInPage ==
    /\ sp \in 0 .. 255
    /\ (Completed /\ LastOpcode \in {8, 72}) =>
           /\ BitOr(_STACK_PAGE_ADDR, last.pre.sp) \in 256 .. 511
           /\ sp = (last.pre.sp - 1) % 256
    /\ (Completed /\ LastOpcode \in {40, 104}) =>
           /\ BitOr(_STACK_PAGE_ADDR, sp) \in 256 .. 511
           /\ sp = (last.pre.sp + 1) % 256

\* C4: after any completed step PC is in $0000..$FFFF.
C4_PcIs16Bit == Completed => pc \in 0 .. 65535

\* C5: a step on a byte that is not in the opcode table fails with the
\* unknown-opcode error (KeyError) and leaves registers, cycles and memory
\* as they were.
C5_UnknownOpcode ==
    (Stepped /\ Fetched.err = OK /\ LastOpcode \notin DOMAIN _instructions) =>
        err = KeyError /\ Untouched

\* a step on opcode $02 with registers and flags away from their reset values
C5_Witness ==
    /\ Stepped
    /\ Fetched.err = OK
    /\ LastOpcode = 2
    /\ err = KeyError
    /\ last.pre.a = 127 /\ last.pre.sp = 255

\* C6: a completed step of a non-branch instruction adds exactly the base
\* cycles of its table entry, a completed branch adds its base 2 plus 0, 1
\* or 2, and no step lowers the counter.
C6_Cycles ==
    Stepped =>
        /\ cycles_count >= last.pre.cycles_count
        /\ (Completed /\ _instructions[LastOpcode].addr_mode # "RELATIVE") =>
               cycles_count = last.pre.cycles_count + _instructions[LastOpcode].cycles
        /\ (Completed /\ _instructions[LastOpcode].addr_mode = "RELATIVE") =>
               /\ _instructions[LastOpcode].cycles = 2
               /\ cycles_count - last.pre.cycles_count \in {2, 3, 4}

\* a completed absolute,X instruction whose indexing left the operand's page
C6_Witness ==
    /\ Completed
    /\ _instructions[LastOpcode].addr_mode = "ABSOLUTE_X"
    /\ Operand1 + last.pre.x > 255
    /\ cycles_count = last.pre.cycles_count + 4

\* the flag test of each branch opcode on status byte p
BranchTaken(opcode, p) ==
    CASE opcode = 16 -> Bit(p, 7) = 0
      [] opcode = 48 -> Bit(p, 7) = 1
      [] opcode = 80 -> Bit(p, 6) = 0
      [] opcode = 112 -> Bit(p, 6) = 1
      [] opcode = 144 -> Bit(p, 0) = 0
      [] opcode = 176 -> Bit(p, 0) = 1
      [] opcode = 208 -> Bit(p, 1) = 0
      [] opcode = 240 -> Bit(p, 1) = 1

\* the address after the branch operand, and the branch's destination
AfterOperand == last.pre.pc + 2

Destination ==
    AfterOperand + (IF Operand1 >= 128 THEN Operand1 - 256 ELSE Operand1)

\* C7: a branch whose condition is false leaves PC after the operand and
\* adds no cycle; a taken branch sets PC to that address plus the signed
\* offset and adds 1 cycle if the destination is in the same 256-byte page
\* as the address after the operand, else 2.
C7_Branch ==
    (Completed /\ LastOpcode \in BranchOpcodes) =>
        IF BranchTaken(LastOpcode, last.pre.ps)
        THEN /\ pc = Destination
             /\ cycles_count = last.pre.cycles_count + 2
                    + (IF Destination \div 256 = AfterOperand \div 256 THEN 1 ELSE 2)
        ELSE /\ pc = AfterOperand
             /\ cycles_count = last.pre.cycles_count + 2

\* a taken branch into another page than the address after its operand,
\* though into the page of the branch opcode itself
C7_Witness ==
    /\ Completed
    /\ LastOpcode \in BranchOpcodes
    /\ BranchTaken(LastOpcode, last.pre.ps)
    /\ pc \div 256 # AfterOperand \div 256
    /\ pc \div 256 = last.pre.pc \div 256
    /\ cycles_count = last.pre.cycles_count + 4

\* the operand byte of the arithmetic instruction just executed
ArithOperand ==
    IF _instructions[LastOpcode].addr_mode = "IMMEDIATE" THEN Operand1
    ELSE read(last.pre, Operand1).val

\* C8: ADC leaves A = (A+M+c) mod 256, C = (A+M+c > 255),
\* V = (((A xor result) and (M xor result) and $80) != 0), Z = (result = 0),
\* N = bit 7 of result, whatever D is; A=$7F, C=0, M=$01 gives A=$80, N=1,
\* V=1, C=0, Z=0.
C8_Adc ==
    (Completed /\ LastOpcode \in {105, 101}) =>
        LET sum == last.pre.a + ArithOperand + Bit(last.pre.ps, 0)
            result == sum % 256
        IN /\ a = result
           /\ (Bit(ps, 0) = 1) = (sum > 255)
           /\ (Bit(ps, 6) = 1) =
                  (BitAnd(BitAnd(BitXor(last.pre.a, result),
                                 BitXor(ArithOperand, result)), 128) # 0)
           /\ (Bit(ps, 1) = 1) = (result = 0)
           /\ Bit(ps, 7) = Bit(result, 7)
           /\ (last.pre.a = 127 /\ ArithOperand = 1 /\ Bit(last.pre.ps, 0) = 0) =>
                  (a = 128 /\ Bit(ps, 7) = 1 /\ Bit(ps, 6) = 1
                   /\ Bit(ps, 0) = 0 /\ Bit(ps, 1) = 0)

\* ADC #$01 on A = $7F with C = 0 and D = 1
C8_Witness ==
    /\ Completed
    /\ LastOpcode = 105
    /\ last.pre.a = 127 /\ Operand1 = 1 /\ last.pre.ps = 40
    /\ a = 128

\* C9: SBC ($E9, $E5, $EB) leaves A = (A - M - (1-c)) mod 256, C = 1 exactly
\* when A - M - (1-c) >= 0, V = (((A xor result) and ((not M) xor result) and
\* $80) != 0), N = bit 7 of result: the A, C, V, N of ADC on the
\* ones-complement of M.
C9_Sbc ==
    (Completed /\ LastOpcode \in {233, 235, 229}) =>
        LET diff == last.pre.a - ArithOperand - (1 - Bit(last.pre.ps, 0))
            result == diff % 256
            adc == add_with_carry(last.pre, 255 - ArithOperand)
        IN /\ a = result
           /\ (Bit(ps, 0) = 1) = (diff >= 0)
           /\ (Bit(ps, 6) = 1) =
                  (BitAnd(BitAnd(BitXor(last.pre.a, result),
                                 BitXor(255 - ArithOperand, result)), 128) # 0)
           /\ Bit(ps, 7) = Bit(result, 7)
           /\ a = adc.a
           /\ Bit(ps, 0) = Bit(adc.ps, 0)
           /\ Bit(ps, 6) = Bit(adc.ps, 6)
           /\ Bit(ps, 7) = Bit(adc.ps, 7)

\* SBC #$B0 ($EB) on A = $50 with C = 1: A = $A0, N = 1, V = 1, C = 0
C9_Witness ==
    /\ Completed
    /\ LastOpcode = 235
    /\ last.pre.a = 80 /\ Operand1 = 176 /\ Bit(last.pre.ps, 0) = 1
    /\ a = 160 /\ Bit(ps, 7) = 1 /\ Bit(ps, 6) = 1 /\ Bit(ps, 0) = 0

\* the pointer of the JMP (p) just executed
Pointer == Operand1 + 256 * Operand2

\* C10: JMP (p) sets PC to low = byte at p and high = byte at p + 1, except
\* that for p = $xxFF the high byte is the byte at $xx00; $34 at $02FF and
\* $12 at $0200 give PC = $1234.
C10_JmpIndirect ==
    (Completed /\ LastOpcode = 108) =>
        /\ pc = read(last.pre, Pointer).val
                + 256 * read(last.pre, IF Pointer % 256 = 255 THEN Pointer - 255
                                       ELSE Pointer + 1).val
        /\ (Pointer = 767 /\ Peek(last.pre.ram, 767) = 52
            /\ Peek(last.pre.ram, 512) = 18) => pc = 4660

\* JMP ($02FF) with $34 at $02FF, $12 at $0200 and another byte at $0300
C10_Witness ==
    /\ Completed
    /\ LastOpcode = 108
    /\ Pointer = 767
    /\ Peek(last.pre.ram, 767) = 52
    /\ Peek(last.pre.ram, 512) = 18
    /\ Peek(last.pre.ram, 768) = 255
    /\ pc = 4660

\* the byte the bus gives at addr in the state reached
Mem(addr) == read(Machine, addr).val

\* C11: BRK sets B, pushes PC as a word (high byte first) and then P,
\* lowers SP by 3 and leaves PC equal to the little-endian word stored at
\* $FFFE/$FFFF.
C11_Brk ==
    (Completed /\ LastOpcode = 0) =>
        /\ Bit(ps, 4) = 1
        /\ ps = BitOr(last.pre.ps, 16)
        /\ sp = last.pre.sp - 3
        /\ Mem(BitOr(_STACK_PAGE_ADDR, last.pre.sp)) = ((last.pre.pc + 1) \div 256) % 256
        /\ Mem(BitOr(_STACK_PAGE_ADDR, last.pre.sp - 1)) = (last.pre.pc + 1) % 256
        /\ Mem(BitOr(_STACK_PAGE_ADDR, last.pre.sp - 2)) = ps
        /\ pc = Mem(_BRQ_VECTOR_ADDR) + 256 * Mem(_BRQ_VECTOR_ADDR + 1)

\* the last two calls were process() calls that completed, the first on
\* opcode first and the second on opcode second
Ran(first, second) ==
    /\ Completed
    /\ LastOpcode = second
    /\ prior.op = "process"
    /\ prior.err = OK
    /\ read(prior.pre, prior.pre.pc).val = first

\* C12: JSR at address a pushes the word a + 2, high byte first, lowers SP
\* by 2 and jumps to its target; an RTS run on the stack as JSR left it
\* sets PC = a + 3 and restores SP.
C12_JsrRts ==
    /\ (Completed /\ LastOpcode = 32) =>
           /\ Mem(BitOr(_STACK_PAGE_ADDR, last.pre.sp)) = (last.pre.pc + 2) \div 256
           /\ Mem(BitOr(_STACK_PAGE_ADDR, last.pre.sp - 1)) = (last.pre.pc + 2) % 256
           /\ sp = last.pre.sp - 2
           /\ pc = Operand1 + 256 * Operand2
    /\ Ran(32, 96) =>
           /\ pc = prior.pre.pc + 3
           /\ sp = prior.pre.sp

\* JSR at $C0FE, whose return word $C100 is in the next page, then RTS
C12_Witness ==
    /\ Ran(32, 96)
    /\ prior.pre.pc = 49406
    /\ prior.pre.sp = 253
    /\ Peek(ram, 509) = 193 /\ Peek(ram, 508) = 0
    /\ pc = 49409
    /\ sp = 253

\* C13: PHA followed by PLA leaves A and SP as before the PHA, sets
\* Z = (A = 0) and N = bit 7 of A, and changes no other flag and no other
\* register.
C13_PhaPla ==
    Ran(72, 104) =>
        /\ a = prior.pre.a
        /\ sp = prior.pre.sp
        /\ x = prior.pre.x
        /\ y = prior.pre.y
        /\ (Bit(ps, 1) = 1) = (prior.pre.a = 0)
        /\ Bit(ps, 7) = Bit(prior.pre.a, 7)
        /\ \A i \in {0, 2, 3, 4, 5, 6} : Bit(ps, i) = Bit(prior.pre.ps, i)

\* PHA; PLA with A = $80 from SP = 0, under flags with Z set and N clear
C13_Witness ==
    /\ Ran(72, 104)
    /\ prior.pre.a = 128
    /\ prior.pre.sp = 0
    /\ prior.pre.ps = 110
    /\ a = 128
    /\ ps = 236

\* C14: PHP followed by PLP leaves P and SP as before the PHP.
C14_PhpPlp ==
    Ran(8, 40) =>
        /\ ps = prior.pre.ps
        /\ sp = prior.pre.sp

\* PHP; PLP from SP = 0 with every flag and B set
C14_Witness ==
    /\ Ran(8, 40)
    /\ prior.pre.sp = 0
    /\ prior.pre.ps = 255
    /\ Peek(ram, 256) = 255
    /\ ps = 255

\* the byte on top of the stack when the last call was made
TopOfStack == read(last.pre, BitOr(_STACK_PAGE_ADDR, last.pre.sp + 1)).val

\* C15: PLP leaves bit 4 (B) as it was, bit 5 set, and every other bit of
\* P equal to that bit of the byte pulled.
C15_Plp ==
    (Completed /\ LastOpcode = 40) =>
        /\ Bit(ps, 4) = Bit(last.pre.ps, 4)
        /\ Bit(ps, 5) = 1
        /\ \A i \in {0, 1, 2, 3, 6, 7} : Bit(ps, i) = Bit(TopOfStack, i)

\* PLP pulling $DF (B set, bit 5 clear) under P = $20 (B clear)
C15_Witness ==
    /\ Completed
    /\ LastOpcode = 40
    /\ TopOfStack = 223
    /\ last.pre.sp = 255
    /\ last.pre.ps = 32
    /\ ps = 239

\* P after the flag instruction opcode run on status byte p
FlagEffect(opcode, p) ==
    CASE opcode = 24 -> p - Bit(p, 0)
      [] opcode = 56 -> p + (1 - Bit(p, 0))
      [] opcode = 88 -> p - 4 * Bit(p, 2)
      [] opcode = 120 -> p + 4 * (1 - Bit(p, 2))
      [] opcode = 184 -> p - 64 * Bit(p, 6)
      [] opcode = 216 -> p - 8 * Bit(p, 3)
      [] opcode = 248 -> p + 8 * (1 - Bit(p, 3))

\* C16: CLC, SEC, CLI, SEI, CLV, CLD and SED set or clear only their own
\* bit of P, change no register other than PC and cycles and no memory,
\* and run twice leave the P that one run leaves.
C16_FlagOps ==
    /\ (Completed /\ LastOpcode \in FlagOpcodes) =>
           /\ ps = FlagEffect(LastOpcode, last.pre.ps)
           /\ a = last.pre.a /\ x = last.pre.x /\ y = last.pre.y
           /\ sp = last.pre.sp
           /\ ram = last.pre.ram /\ cart = last.pre.cart
           /\ ppu_ctrl = last.pre.ppu_ctrl /\ ppu_mask = last.pre.ppu_mask
    /\ \A opcode \in FlagOpcodes :
           Ran(opcode, opcode) =>
               /\ ps = last.pre.ps
               /\ ps = FlagEffect(opcode, prior.pre.ps)

\* SEI; SEI with A = 0 from a P with I and Z clear and N set
C16_Witness ==
    /\ Ran(120, 120)
    /\ prior.pre.a = 0
    /\ prior.pre.ps = 161
    /\ last.pre.ps = 165
    /\ ps = 165

\* the memory forms of ASL, LSR, ROL and ROR
ShiftOpcodes == {6, 22, 14, 30, 70, 86, 78, 94, 38, 54, 46, 62, 102, 118, 110, 126}

\* the effective address of the instruction just executed, for the
\* zero-page, zero-page,X, absolute and absolute,X modes
EffectiveAddress ==
    LET mode == _instructions[LastOpcode].addr_mode
    IN CASE mode = "ZERO_PAGE" -> Operand1
         [] mode = "ZERO_PAGE_X" -> (Operand1 + last.pre.x) % 256
         [] mode = "ABSOLUTE" -> Operand1 + 256 * Operand2
         [] mode = "ABSOLUTE_X" -> (Operand1 + 256 * Operand2 + last.pre.x) % 65536

\* byte v shifted or rotated by the instruction named, with carry-in c
Shifted(function, v, c) ==
    CASE function = "_asl" -> (2 * v) % 256
      [] function = "_asr" -> v \div 2
      [] function = "_rol" -> (2 * v + c) % 256
      [] function = "_ror" -> v \div 2 + 128 * c

\* C17: ASL, LSR, ROL and ROR on memory write the shifted or rotated byte
\* back at the effective address, $0000 included, and leave A unchanged;
\* ROL takes the old C into bit 0 and ROR into bit 7, and C takes the bit
\* shifted out.
C17_ShiftMemory ==
    (Completed /\ LastOpcode \in ShiftOpcodes /\ EffectiveAddress < _RAM_END) =>
        LET function == _instructions[LastOpcode].function
            v == read(last.pre, EffectiveAddress).val
        IN /\ Mem(EffectiveAddress) = Shifted(function, v, Bit(last.pre.ps, 0))
           /\ a = last.pre.a
           /\ Bit(ps, 0) = (IF function \in {"_asl", "_rol"} THEN Bit(v, 7) ELSE Bit(v, 0))

\* the illegal read-modify-write instructions and the legal pair of each
RmwFunctions == {"_dcp", "_isb", "_slo", "_rla", "_sre", "_rra"}

LegalPair(function) ==
    CASE function = "_dcp" -> <<"_dec", "_cmp">>
      [] function = "_isb" -> <<"_inc", "_sbc">>
      [] function = "_slo" -> <<"_asl", "_ora">>
      [] function = "_rla" -> <<"_rol", "_and">>
      [] function = "_sre" -> <<"_asr", "_eor">>
      [] function = "_rra" -> <<"_ror", "_adc">>

\* the machine and the argument the instruction just executed was called
\* with, once its operand was resolved
Resolved ==
    resolve([last.pre EXCEPT !.pc = @ + 1], _instructions[LastOpcode].addr_mode)

\* the machine the legal pair leaves when run on that argument
PairResult ==
    LET pair == LegalPair(_instructions[LastOpcode].function)
    IN Exec(Exec(Resolved.m, pair[1], Resolved.arg), pair[2], Resolved.arg)

\* C18: one step of DCP, ISB, SLO, RLA, SRE or RRA on an effective address
\* in RAM leaves the A, X, Y, SP, P and memory that its legal pair (DEC CMP,
\* INC SBC, ASL ORA, ROL AND, LSR EOR, ROR ADC) leaves on that address.
C18_IllegalRmw ==
    (/\ Completed
     /\ _instructions[LastOpcode].function \in RmwFunctions
     /\ Resolved.arg.v < _RAM_END) =>
        /\ PairResult.err = OK
        /\ a = PairResult.a
        /\ x = PairResult.x
        /\ y = PairResult.y
        /\ sp = PairResult.sp
        /\ ps = PairResult.ps
        /\ ram = PairResult.ram

\* the register the compare just executed reads
Compared ==
    CASE LastOpcode \in {201, 197} -> last.pre.a
      [] LastOpcode \in {224, 228} -> last.pre.x
      [] LastOpcode \in {192, 196} -> last.pre.y

\* C19: CMP, CPX and CPY with register value r and operand M leave
\* C = (r >= M), Z = (r = M), N = bit 7 of ((r - M) mod 256), and A, X, Y,
\* SP, V and memory unchanged.
C19_Compare ==
    (Completed /\ LastOpcode \in CompareOpcodes) =>
        /\ (Bit(ps, 0) = 1) = (Compared >= ArithOperand)
        /\ (Bit(ps, 1) = 1) = (Compared = ArithOperand)
        /\ Bit(ps, 7) = Bit((Compared - ArithOperand) % 256, 7)
        /\ Bit(ps, 6) = Bit(last.pre.ps, 6)
        /\ a = last.pre.a /\ x = last.pre.x /\ y = last.pre.y
        /\ sp = last.pre.sp
        /\ ram = last.pre.ram /\ cart = last.pre.cart

\* CPX #$01 with X = $00 under N, V, Z, C set: C = 0, Z = 0, N = 1, V kept
C19_Witness ==
    /\ Completed
    /\ LastOpcode = 224
    /\ last.pre.x = 0
    /\ Operand1 = 1
    /\ last.pre.ps = 227
    /\ ps = 224

\* the number of operand bytes of each addressing mode
OperandLength(addr_mode) ==
    CASE addr_mode \in {"IMPLIED", "ACCUMULATOR"} -> 0
      [] addr_mode \in {"IMMEDIATE", "ZERO_PAGE", "ZERO_PAGE_X", "ZERO_PAGE_Y",
                        "RELATIVE", "INDIRECT_X", "INDIRECT_Y"} -> 1
      [] addr_mode \in {"ABSOLUTE", "ABSOLUTE_X", "ABSOLUTE_Y", "INDIRECT"} -> 2

\* the instruction just executed sets PC itself
Jumps ==
    \/ _instructions[LastOpcode].function \in {"_jmp", "_jsr", "_rts", "_rti", "_brk"}
    \/ /\ _instructions[LastOpcode].addr_mode = "RELATIVE"
       /\ BranchTaken(LastOpcode, last.pre.ps)

\* C20: a completed step of any table opcode other than JMP, JSR, RTS,
\* RTI, BRK and a taken branch leaves PC = old PC + 1 + the operand length
\* of its addressing mode.
C20_PcAdvance ==
    (Completed /\ ~Jumps) =>
        pc = last.pre.pc + 1 + OperandLength(_instructions[LastOpcode].addr_mode)

\* LDA ($10),Y at $C000 leaving PC = $C002
C20_Witness ==
    /\ Completed
    /\ LastOpcode = 177
    /\ last.pre.pc = 49152
    /\ Operand1 = 16
    /\ pc = 49154

\* the byte the bus gave at addr when the last call was made
Was(addr) == read(last.pre, addr).val

\* the effective address the claim gives the instruction just executed,
\* for the zero-page indexed and the indexed indirect modes
ZeroPageAddress ==
    LET mode == _instructions[LastOpcode].addr_mode
        t == (Operand1 + last.pre.x) % 256
    IN CASE mode = "ZERO_PAGE_X" -> (Operand1 + last.pre.x) % 256
         [] mode = "ZERO_PAGE_Y" -> (Operand1 + last.pre.y) % 256
         [] mode = "INDIRECT_X" -> Was(t) + 256 * Was((t + 1) % 256)
         [] mode = "INDIRECT_Y" ->
                (Was(Operand1) + 256 * Was((Operand1 + 1) % 256) + last.pre.y) % 65536

\* C21: zero-page,X/Y address (operand + X or Y) mod 256; (indirect,X)
\* reads its target at (operand + X) mod 256 and (operand + X + 1) mod 256;
\* (indirect),Y reads its pointer at operand and (operand + 1) mod 256 and
\* adds Y modulo $10000.
C21_ZeroPageModes ==
    (Completed /\ _instructions[LastOpcode].addr_mode
                     \in {"ZERO_PAGE_X", "ZERO_PAGE_Y", "INDIRECT_X", "INDIRECT_Y"}) =>
        /\ Resolved.arg.v = ZeroPageAddress
        /\ LastOpcode \in {181, 161, 177} => a = Was(ZeroPageAddress)
        /\ LastOpcode = 182 => x = Was(ZeroPageAddress)

\* LDA ($FF,X) with X = 0: the target's high byte comes from $0000
C21_Witness ==
    /\ Completed
    /\ LastOpcode = 161
    /\ Operand1 = 255 /\ last.pre.x = 0
    /\ ZeroPageAddress = Was(255) + 256 * Was(0)
    /\ Was(0) # Was(256)
    /\ a = Was(ZeroPageAddress)
    /\ a # Was(Was(255) + 256 * Was(256))

\* the last call was a bus write, or a bus read, at an address in lo .. hi
Wrote(lo, hi) == last.op = "write" /\ last.addr \in lo .. hi

ReadAt(lo, hi) == last.op = "read" /\ last.addr \in lo .. hi

\* C22: after write8(a, v) with a in $0000..$1FFF, read8 returns v at
\* every RAM address with the offset of a modulo $0800, and what it
\* returned before at every other RAM address.
C22_RamMirror ==
    Wrote(0, 8191) =>
        /\ err = OK
        /\ \A other \in RamProbes :
               /\ read(Machine, other).err = OK
               /\ Mem(other) = IF other % 2048 = last.addr % 2048
                               THEN last.value
                               ELSE Was(other)

\* $81 written at $1801 over another byte, read back at $0001 and $1001
C22_Witness ==
    /\ Wrote(6145, 6145)
    /\ last.value = 129
    /\ Was(1) = 2
    /\ Mem(1) = 129 /\ Mem(4097) = 129
    /\ Mem(0) = 128

\* C23: on a cartridge built from a 16 KiB image, read8(addr) returns
\* image[(addr - $8000) mod image_len] for every addr in $8000..$FFFF
\* without error, so $C000 + k reads as $8000 + k does.
C23_PrgMirror ==
    (ReadAt(32768, 65535) /\ cart.len = 16384) =>
        /\ err = OK
        /\ last.value = Peek(cart.rom, (last.addr - CART_BASE) % cart.len)

\* C24: a write into cartridge space ($4020..$FFFF) is a no-op that does
\* not raise: the call completes and RAM, cartridge and PPU registers are
\* what they were.
C24_CartridgeWriteNoOp ==
    Wrote(_APU_UNUSED_END, 65535) =>
        /\ err = OK
        /\ ram = last.pre.ram
        /\ cart = last.pre.cart
        /\ ppu_ctrl = last.pre.ppu_ctrl /\ ppu_mask = last.pre.ppu_mask

\* C25: a bus write8 to a read-only cartridge address ($8000..$FFFF) raises
\* the bus's error for such a write, and RAM and the cartridge's bytes are
\* what they were before the call.
C25_ReadOnlyWrite ==
    Wrote(CART_BASE, 65535) =>
        /\ err = NotImplementedError
        /\ ram = last.pre.ram
        /\ cart = last.pre.cart
        /\ \A other \in BusAddresses :
               other < _RAM_END \/ other >= CART_BASE =>
                   read(Machine, other) = read(last.pre, other)

\* $81 written at $8000 over the image's first byte, with RAM filled
C25_Witness ==
    /\ Wrote(CART_BASE, CART_BASE) /\ last.value = 129
    /\ err = NotImplementedError
    /\ Mem(CART_BASE) = 1 /\ ram # <<>>

\* C26: a bus read8 in the PPU port range $2000..$3FFF or the APU and I/O
\* range $4000..$4017 returns 0 without raising; a read8 in $4018..$401F
\* returns 0 and a write8 there is discarded without raising; RAM is
\* unchanged by each of them.
C26_PortReads ==
    /\ ReadAt(_RAM_END, _APU_UNUSED_END - 1) =>
           err = OK /\ last.value = 0 /\ ram = last.pre.ram
    /\ Wrote(_APU_AND_IO_END, _APU_UNUSED_END - 1) =>
           err = OK /\ ram = last.pre.ram

\* C27: a bus write8(addr, v) with addr in $2000..$3FFF completes without
\* raising and goes to the PPU register slot addr mod 8: slot 0 stores v
\* in the PPU control register, slot 1 stores v in the PPU mask register,
\* and a register that is not the slot's keeps its value.
C27_PpuWrite ==
    Wrote(_RAM_END, _PPU_END - 1) =>
        /\ err = OK
        /\ ppu_ctrl = IF last.addr % 8 = 0 THEN last.value ELSE last.pre.ppu_ctrl
        /\ ppu_mask = IF last.addr % 8 = 1 THEN last.value ELSE last.pre.ppu_mask

\* C28: a cartridge read8(addr) with addr below $8000, which the bus
\* forwards for every address in $4020..$7FFF, fails with the cartridge's
\* address-out-of-range error and changes no state.
C28_ReadBelowWindow ==
    /\ \A addr \in {0, _APU_UNUSED_END, 24576, CART_BASE - 1} :
           NROMCartridge_read(cart, addr).err = ValueError
    /\ ReadAt(_APU_UNUSED_END, CART_BASE - 1) =>
           /\ err = ValueError
           /\ [Machine EXCEPT !.err = OK] = last.pre

\* a read at $7FFF on the 32 KiB image, whose last byte is not 0
C28_Witness ==
    /\ ReadAt(CART_BASE - 1, CART_BASE - 1) /\ err = ValueError
    /\ cart.len = 32768 /\ Mem(65535) # 0 /\ ram # <<>>

\* the opcodes of SBC (the eight legal forms and $EB) and of ISB
SbcOpcodes == {233, 229, 245, 237, 253, 249, 225, 241, 235}

IsbOpcodes == {231, 247, 239, 255, 251, 227, 243}

\* C29: after SBC, in its legal forms and as $EB, and after ISB, Z is 1
\* exactly when the resulting 8-bit accumulator is $00.
C29_SbcZero ==
    (Completed /\ LastOpcode \in SbcOpcodes \cup IsbOpcodes) =>
        ((Bit(ps, 1) = 1) <=> (a = 0))

\* C30: A, X and Y hold a value in 0..255 in every state, after TSX and
\* after pushes and pulls with SP at $FF or $00 too, and every byte stored
\* in RAM is in 0..255.
C30_ByteRegisters ==
    /\ a \in Byte /\ x \in Byte /\ y \in Byte
    /\ \A o \in DOMAIN ram : ram[o] \in Byte

\* C31: a step that raises an error, whichever it is, leaves PC, A, X, Y,
\* SP, P, the cycle counter and memory as they were before the step.
C31_AtomicFailure ==
    (Stepped /\ err # OK) => Untouched

(***************************************************************************)
(* The PPU on its own: two PPU objects built one after the other, and      *)
(* set_ctrl_reg and set_mask_reg called on either.  The class body of PPU  *)
(* builds one ControllerRegister and one MaskRegister when the class is    *)
(* defined and PPU has no __init__, so ppu_ctrl and ppu_mask are the       *)
(* values of those two objects.  last also holds the instance the call     *)
(* was made on and the value passed.                                       *)
(***************************************************************************)
PpuInstances == {1, 2}

\* instance._ppu_ctrl.value and instance._ppu_mask.value on machine m: the
\* instance has no attribute of its own, so the lookup ends at the class
_ppu_ctrl(m, instance) == m.ppu_ctrl

_ppu_mask(m, instance) == m.ppu_mask

InitPpu ==
    Holds(MidRun(PrgImage(32768), 0, Regs(0, 0, 0, 253, 32), <<>>), MaxSteps - 2)

PpuSetCtrl ==
    /\ steps < MaxSteps
    /\ \E instance \in PpuInstances, value \in BusValues :
           /\ Becomes(set_ctrl_reg(Machine, value))
           /\ last' = [op |-> "set_ctrl_reg", pre |-> Machine,
                       instance |-> instance, value |-> value]
    /\ steps' = steps + 1
    /\ prior' = [op |-> last.op, pre |-> last.pre, err |-> err]

PpuSetMask ==
    /\ steps < MaxSteps
    /\ \E instance \in PpuInstances, value \in BusValues :
           /\ Becomes(set_mask_reg(Machine, value))
           /\ last' = [op |-> "set_mask_reg", pre |-> Machine,
                       instance |-> instance, value |-> value]
    /\ steps' = steps + 1
    /\ prior' = [op |-> last.op, pre |-> last.pre, err |-> err]

NextPpu == PpuSetCtrl \/ PpuSetMask

SpecPpu == InitPpu /\ [][NextPpu]_vars

\* C32: set_ctrl_reg or set_mask_reg on one PPU instance leaves the control
\* and the mask register value observed on the other instance as they were.
C32_PpuIndependent ==
    last.op \in {"set_ctrl_reg", "set_mask_reg"} =>
        \A other \in PpuInstances \ {last.instance} :
            /\ _ppu_ctrl(Machine, other) = _ppu_ctrl(last.pre, other)
            /\ _ppu_mask(Machine, other) = _ppu_mask(last.pre, other)
====
